---- MODULE Spec2Model ----
(***************************************************************************)
(* A state-machine model of the Sono API (appsono/sono-api): the CRUD      *)
(* layer of app/crud.py over the tables of app/models.py, the request      *)
(* handlers of app/routers/*.py with the dependencies that resolve the     *)
(* caller, the maintenance gate and the data-retention tasks.              *)
(*                                                                         *)
(* The relational database is the state: one variable per table.  Every    *)
(* handler is one action; a handler that ends with an exception leaves     *)
(* the tables as they were (the request's session is closed without a      *)
(* commit) and records the HTTP status in resp.                            *)
(***************************************************************************)
EXTENDS Integers, Sequences, FiniteSets, TLC

VARIABLES
    users,              \* table users: id -> row
    audio_files,        \* table audio_files: id -> row
    collections,        \* table collections: id -> row
    collection_tracks,  \* table collection_tracks: set of rows
    collaborators,      \* table collection_collaborators: set of rows
    revoked_tokens,     \* table revoked_tokens: set of rows
    audit_logs,         \* table audit_logs: sequence of rows, oldest first
    deletion_requests,  \* table user_deletion_requests: set of rows
    announcements,      \* table announcements: id -> row
    tokens,             \* every JWT issued so far (held by clients)
    next_id,            \* the auto-increment counters / uuid source
    now,                \* the wall clock, in UTC
    config,             \* the deployment's settings and environment
    maintenance,        \* the process-wide MaintenanceState
    password_reset_tokens,  \* table password_reset_tokens: set of rows
    profile_pictures,   \* bucket profile-pictures: the names of its objects
    retention_policies, \* table data_retention_policies: the data types that have a row
    inflight,           \* the requests and jobs under way: id -> position and locals
    resp                \* the outcome of the last request or call

vars == <<users, audio_files, collections, collection_tracks, collaborators,
          revoked_tokens, audit_logs, deletion_requests, announcements,
          tokens, next_id, now, config, maintenance, password_reset_tokens,
          profile_pictures, retention_policies, inflight, resp>>

(***************************************************************************)
(* Bounds of the model.                                                    *)
(***************************************************************************)
MaxTrackId == 2      \* collection_tracks rows ever inserted
MaxOrder == 3        \* largest track_order / new_order a request carries

None == "None"       \* Python None / SQL NULL, where the value is a string
Null == <<>>         \* Python None / SQL NULL, where the value is a number
Some(v) == <<v>>     \* a number that is present
Val(o) == o[1]

Max(S) == CHOOSE x \in S : \A y \in S : y <= x

(***************************************************************************)
(* Collection tracks (app/crud.py, COLLECTION TRACK CRUD).                 *)
(***************************************************************************)
TracksOf(tr, cid) == {t \in tr : t.collection_id = cid}

OrdersOf(tr, cid) == {t.track_order : t \in TracksOf(tr, cid)}

\* UniqueConstraint('collection_id', 'track_order'): no two rows of one
\* collection carry the same order.
uq_collection_track_order(tr) ==
    \A a, b \in tr :
        (a.collection_id = b.collection_id /\ a.track_order = b.track_order)
            => a = b

\* UPDATE ... SET track_order = track_order + delta over the rows `rows`.
ShiftRows(tr, rows, delta) ==
    (tr \ rows) \cup {[t EXCEPT !.track_order = @ + delta] : t \in rows}

\* The constraint is not deferrable: the database checks it row by row, in
\* an order the statement does not fix, so the statement can fail when a
\* row is moved onto an order another row of the collection still holds.
ShiftCanCollide(tr, rows, delta) ==
    \E a \in rows : \E b \in tr :
        /\ a # b
        /\ a.collection_id = b.collection_id
        /\ b.track_order = a.track_order + delta

\* func.max(track_order) ... .scalar(): NULL on an empty collection.
max_order(tr, cid) ==
    IF TracksOf(tr, cid) = {} THEN Null ELSE Some(Max(OrdersOf(tr, cid)))

\* add_track_to_collection: the rows after the call; track_order = None
\* appends, an explicit track_order shifts the rows at or after it.
add_track_to_collection(tr, cid, file, track_order, id) ==
    LET mo == max_order(tr, cid)
        ord == IF track_order = Null
               THEN (IF mo = Null \/ mo = Some(0) THEN 0 ELSE Val(mo)) + 1
               ELSE Val(track_order)
        toShift == IF track_order = Null THEN {}
                   ELSE {t \in TracksOf(tr, cid) : t.track_order >= ord}
    IN  ShiftRows(tr, toShift, 1) \cup
            {[id |-> id, collection_id |-> cid, audio_file_id |-> file,
              track_order |-> ord]}

add_track_can_fail(tr, cid, track_order) ==
    /\ track_order # Null
    /\ ShiftCanCollide(tr, {t \in TracksOf(tr, cid) : t.track_order >= Val(track_order)}, 1)

\* remove_track_from_collection: delete the row, shift the later rows up.
remove_track_from_collection(tr, cid, track_id) ==
    LET found == {t \in TracksOf(tr, cid) : t.id = track_id}
    IN  IF found = {} THEN tr
        ELSE LET t0 == CHOOSE t \in found : TRUE
                 rest == tr \ {t0}
                 later == {t \in TracksOf(rest, cid) : t.track_order > t0.track_order}
             IN  ShiftRows(rest, later, -1)

remove_track_can_fail(tr, cid, track_id) ==
    \E t0 \in TracksOf(tr, cid) :
        /\ t0.id = track_id
        /\ ShiftCanCollide(tr, {t \in TracksOf(tr, cid) : t.track_order > t0.track_order}, -1)

\* reorder_collection_track, step by step.  The moving row is parked at -1
\* and flushed, every row between the two positions is shifted by one and
\* flushed on its own, then the moving row takes new_order.  The result is
\* [ok, tracks, found]: ok = FALSE when a flush violates the constraint.
RECURSIVE ShiftOneByOne(_, _, _)
ShiftOneByOne(tr, pending, delta) ==
    \* pending: the rows still to shift, as a sequence in the query's order
    IF pending = <<>> THEN [ok |-> TRUE, tracks |-> tr]
    ELSE LET t == Head(pending)
             cur == CHOOSE x \in tr : x.id = t.id
             moved == (tr \ {cur}) \cup {[cur EXCEPT !.track_order = @ + delta]}
         IN  IF ~uq_collection_track_order(moved) \/ Cardinality(moved) < Cardinality(tr)
             THEN [ok |-> FALSE, tracks |-> tr]
             ELSE ShiftOneByOne(moved, Tail(pending), delta)

RECURSIVE SortByOrder(_, _)
SortByOrder(rows, asc) ==
    IF rows = {} THEN <<>>
    ELSE LET first == CHOOSE t \in rows : \A u \in rows :
                          IF asc THEN t.track_order <= u.track_order
                                 ELSE t.track_order >= u.track_order
         IN  <<first>> \o SortByOrder(rows \ {first}, asc)

\* A reorder that exchanges the moved track with the one at new_order.
reorder_collection_track_swap(tr, cid, track_id, new_order) ==
    LET found == {t \in TracksOf(tr, cid) : t.id = track_id}
    IN  IF found = {} THEN [ok |-> TRUE, found |-> FALSE, tracks |-> tr]
        ELSE LET track == CHOOSE t \in found : TRUE
             IN  [ok |-> TRUE, found |-> TRUE,
                  tracks |-> {IF t = track
                              THEN [t EXCEPT !.track_order = new_order]
                              ELSE IF t.collection_id = cid
                                      /\ t.track_order = new_order
                              THEN [t EXCEPT !.track_order = track.track_order]
                              ELSE t : t \in tr}]

reorder_collection_track(tr, cid, track_id, new_order) ==
    LET found == {t \in TracksOf(tr, cid) : t.id = track_id}
    IN  IF found = {} THEN [ok |-> TRUE, found |-> FALSE, tracks |-> tr]
        ELSE
        LET track == CHOOSE t \in found : TRUE
            old_order == track.track_order
        IN  IF new_order = old_order
            THEN [ok |-> TRUE, found |-> TRUE, tracks |-> tr]
            ELSE
            LET parked == (tr \ {track}) \cup {[track EXCEPT !.track_order = -1]}
            IN  IF ~uq_collection_track_order(parked) \/ Cardinality(parked) < Cardinality(tr)
                THEN [ok |-> FALSE, found |-> TRUE, tracks |-> tr]
                ELSE
                LET toShift ==
                        IF new_order > old_order
                        THEN SortByOrder({t \in TracksOf(parked, cid) :
                                 t.track_order > old_order /\ t.track_order <= new_order}, TRUE)
                        ELSE SortByOrder({t \in TracksOf(parked, cid) :
                                 t.track_order >= new_order /\ t.track_order < old_order}, FALSE)
                    shifted == ShiftOneByOne(parked, toShift,
                                             IF new_order > old_order THEN -1 ELSE 1)
                    me == CHOOSE x \in shifted.tracks : x.id = track_id
                    final == (shifted.tracks \ {me}) \cup
                                 {[me EXCEPT !.track_order = new_order]}
                IN  IF ~shifted.ok \/ ~uq_collection_track_order(final)
                       \/ Cardinality(final) < Cardinality(tr)
                    THEN [ok |-> FALSE, found |-> TRUE, tracks |-> tr]
                    ELSE [ok |-> TRUE, found |-> TRUE, tracks |-> final]

(***************************************************************************)
(* Rows and seeds.  The seeded database is one the program reaches by      *)
(* registrations, uploads and collection creations: one superuser and two  *)
(* ordinary accounts, two public audio files, two collections.             *)
(***************************************************************************)
DefaultUploadLimit == 20   \* create_user: max_audio_uploads=20

UserRow(username, email, password, super) ==
    [username |-> username, email |-> email, hashed_password |-> password,
     is_active |-> TRUE, is_superuser |-> super,
     profile_picture_url |-> None, display_name |-> username, bio |-> None,
     max_audio_uploads |-> DefaultUploadLimit]

SeedUsers ==
    (1 :> UserRow("admin", "admin@example.com", "pw_admin", TRUE)) @@
    (2 :> UserRow("alice", "alice@example.com", "pw_alice", FALSE)) @@
    (3 :> UserRow("bob", "bob@example.com", "pw_bob", FALSE))

\* owner_id is nullable: Some(user id) or Null.
AudioRow(owner, public) == [owner_id |-> Some(owner), is_public |-> public]

SeedAudio == (1 :> AudioRow(2, TRUE)) @@ (2 :> AudioRow(3, TRUE))

CollectionRow(owner, public, collaborative) ==
    [owner_id |-> owner, is_public |-> public, is_collaborative |-> collaborative]

SeedCollections ==
    (1 :> CollectionRow(2, FALSE, TRUE)) @@ (2 :> CollectionRow(3, TRUE, FALSE))

SeedCollaborators ==
    {[collection_id |-> 1, user_id |-> 3, permission_level |-> "edit"]}

SeedConfig == [tz_offset |-> 0, secret_key |-> "k1", refresh_token_secret_key |-> "k2"]

SeedIds == [track |-> 1, jti |-> 1, user |-> 4, audio |-> 3, announcement |-> 1,
            deletion_request |-> 1, reset_token |-> 1]

NoResp == [op |-> "none", status |-> 0]

Resp(op, status) == [op |-> op, status |-> status]

ActiveUsers == {u \in DOMAIN users : users[u].is_active}

(***************************************************************************)
(* Collection permissions (app/crud.py, COLLECTION COLLABORATION CRUD).    *)
(***************************************************************************)
CollaboratorRows(cid, uid) ==
    {c \in collaborators : c.collection_id = cid /\ c.user_id = uid}

\* A check that lets every user with a collaborator row edit.
user_can_edit_collection_any_row(cid, uid) ==
    IF cid \notin DOMAIN collections THEN FALSE
    ELSE IF collections[cid].owner_id = uid THEN TRUE
    ELSE CollaboratorRows(cid, uid) # {}

\* crud.user_can_edit_collection (the flag of the returned pair)
user_can_edit_collection(cid, uid) ==
    IF cid \notin DOMAIN collections THEN FALSE
    ELSE IF collections[cid].owner_id = uid THEN TRUE
    ELSE IF ~collections[cid].is_collaborative THEN FALSE
    ELSE \E c \in CollaboratorRows(cid, uid) : c.permission_level = "edit"

user_can_view_collection(cid, uid) ==
    IF cid \notin DOMAIN collections THEN FALSE
    ELSE IF collections[cid].owner_id = uid THEN TRUE
    ELSE IF collections[cid].is_public THEN TRUE
    ELSE CollaboratorRows(cid, uid) # {}

(***************************************************************************)
(* Track handlers (app/routers/collections.py, TRACK MANAGEMENT).  The     *)
(* caller u is the user that get_current_active_user resolved.             *)
(***************************************************************************)
TrackVarsUnchanged ==
    UNCHANGED <<users, collections, collaborators, revoked_tokens, audit_logs,
                deletion_requests, announcements, tokens, now, config,
                profile_pictures, retention_policies, inflight, maintenance,
                password_reset_tokens>>

\* The checks every track handler starts with: 404, 403 or 0 (go on).
EditGate(u, cid) ==
    IF cid \notin DOMAIN collections THEN 404
    ELSE IF ~user_can_edit_collection(cid, u) /\ ~users[u].is_superuser THEN 403
    ELSE 0

\* POST /collections/{id}/tracks
AddTrack(u, cid, file, track_order) ==
    /\ next_id.track <= MaxTrackId
    /\ LET gate == EditGate(u, cid)
           st == IF gate # 0 THEN gate
                 ELSE IF file \notin DOMAIN audio_files THEN 404
                 ELSE IF audio_files[file].owner_id # Some(u) /\ ~audio_files[file].is_public
                      THEN 403
                 ELSE 200
       IN  \/ /\ st # 200
              /\ resp' = Resp("add_track", st)
              /\ UNCHANGED <<collection_tracks, next_id>>
           \/ /\ st = 200
              /\ collection_tracks' = add_track_to_collection(
                     collection_tracks, cid, file, track_order, next_id.track)
              /\ next_id' = [next_id EXCEPT !.track = @ + 1]
              /\ resp' = Resp("add_track", 200)
           \/ /\ st = 200
              /\ add_track_can_fail(collection_tracks, cid, track_order)
              /\ resp' = Resp("add_track", 500)
              /\ UNCHANGED <<collection_tracks, next_id>>
    /\ UNCHANGED audio_files
    /\ TrackVarsUnchanged

\* DELETE /collections/{id}/tracks/{track_id}
RemoveTrack(u, cid, track_id) ==
    /\ LET gate == EditGate(u, cid)
           present == \E t \in TracksOf(collection_tracks, cid) : t.id = track_id
       IN  \/ /\ gate # 0
              /\ resp' = Resp("remove_track", gate)
              /\ UNCHANGED collection_tracks
           \/ /\ gate = 0 /\ ~present
              /\ resp' = Resp("remove_track", 404)
              /\ UNCHANGED collection_tracks
           \/ /\ gate = 0 /\ present
              /\ collection_tracks' =
                     remove_track_from_collection(collection_tracks, cid, track_id)
              /\ resp' = Resp("remove_track", 200)
           \/ /\ gate = 0 /\ present
              /\ remove_track_can_fail(collection_tracks, cid, track_id)
              /\ resp' = Resp("remove_track", 500)
              /\ UNCHANGED collection_tracks
    /\ UNCHANGED <<audio_files, next_id>>
    /\ TrackVarsUnchanged

\* PUT /collections/{id}/tracks/{track_id}/reorder (new_order: ge=1)
ReorderTrack(u, cid, track_id, new_order) ==
    /\ LET gate == EditGate(u, cid)
           r == reorder_collection_track(collection_tracks, cid, track_id, new_order)
       IN  IF gate # 0
           THEN resp' = Resp("reorder_track", gate) /\ UNCHANGED collection_tracks
           ELSE IF ~r.found
           THEN resp' = Resp("reorder_track", 404) /\ UNCHANGED collection_tracks
           ELSE IF ~r.ok
           THEN resp' = Resp("reorder_track", 500) /\ UNCHANGED collection_tracks
           ELSE resp' = Resp("reorder_track", 200) /\ collection_tracks' = r.tracks
    /\ UNCHANGED <<audio_files, next_id>>
    /\ TrackVarsUnchanged

\* POST /collections/{id}/tracks/bulk-reorder: one reorder (and commit) per
\* item, in the order given; an item whose flush fails ends the request
\* with what the earlier items committed.
RECURSIVE BulkReorderRun(_, _, _)
BulkReorderRun(tr, cid, items) ==
    IF items = <<>> THEN [ok |-> TRUE, tracks |-> tr]
    ELSE LET r == reorder_collection_track(tr, cid, Head(items).track_id,
                                           Head(items).new_order)
         IN  IF ~r.ok THEN [ok |-> FALSE, tracks |-> tr]
             ELSE BulkReorderRun(r.tracks, cid, Tail(items))

BulkReorderTracks(u, cid, items) ==
    /\ LET gate == EditGate(u, cid)
           r == BulkReorderRun(collection_tracks, cid, items)
       IN  IF gate # 0
           THEN resp' = Resp("bulk_reorder", gate) /\ UNCHANGED collection_tracks
           ELSE /\ resp' = Resp("bulk_reorder", IF r.ok THEN 200 ELSE 500)
                /\ collection_tracks' = r.tracks
    /\ UNCHANGED <<audio_files, next_id>>
    /\ TrackVarsUnchanged

(***************************************************************************)
(* Audio-file deletion (app/crud.py delete_audio_file, router audio.py).   *)
(***************************************************************************)
\* crud.delete_audio_file: the track rows of the file are deleted, then the
\* file row; nothing else is touched.
delete_audio_file_tracks(tr, file) == {t \in tr : t.audio_file_id # file}

\* The answer of a single-file deletion; storage_failed: remove_object
\* was called and raised.
DeleteResp(op, status, file, removed) ==
    [op |-> op, status |-> status, file |-> file,
     storage_failed |-> (status = 200 /\ ~removed)]

\* DELETE /audio/{file_id}; removed: minio_client.remove_object succeeds.
\* Its failure is logged and the row is deleted all the same.
DeleteAudioFile(u, file, removed) ==
    /\ IF file \notin DOMAIN audio_files
       THEN resp' = DeleteResp("delete_audio", 404, file, removed)
            /\ UNCHANGED <<audio_files, collection_tracks>>
       ELSE IF audio_files[file].owner_id # Some(u) /\ ~users[u].is_superuser
       THEN resp' = DeleteResp("delete_audio", 403, file, removed)
            /\ UNCHANGED <<audio_files, collection_tracks>>
       ELSE /\ collection_tracks' = delete_audio_file_tracks(collection_tracks, file)
            /\ audio_files' = [f \in DOMAIN audio_files \ {file} |-> audio_files[f]]
            /\ resp' = DeleteResp("delete_audio", 200, file, removed)
    /\ UNCHANGED next_id
    /\ TrackVarsUnchanged

(***************************************************************************)
(* Specification of the track operations.                                  *)
(***************************************************************************)
TrackOrderInputs == {Null} \cup {Some(o) : o \in -1 .. MaxOrder}

ReorderItems == [track_id : 1 .. MaxTrackId, new_order : 1 .. MaxOrder]

\* A bulk-reorder request carries one item or two.
BulkInputs == {<<a>> : a \in ReorderItems} \cup
              {<<a, b>> : a \in ReorderItems, b \in ReorderItems}

InitTracks ==
    /\ users = SeedUsers /\ audio_files = SeedAudio
    /\ collections = SeedCollections /\ collaborators = SeedCollaborators
    /\ collection_tracks = {}
    /\ revoked_tokens = {} /\ audit_logs = <<>> /\ deletion_requests = {}
    /\ announcements = <<>> /\ tokens = {}
    /\ next_id = SeedIds /\ now = 0 /\ config = SeedConfig
    /\ maintenance = [enabled |-> FALSE] /\ password_reset_tokens = {}
    /\ profile_pictures = {} /\ retention_policies = {} /\ inflight = <<>>
    /\ resp = NoResp

NextTracks ==
    \/ \E u \in ActiveUsers, cid \in DOMAIN collections, f \in 1 .. 2,
          o \in TrackOrderInputs : AddTrack(u, cid, f, o)
    \/ \E u \in ActiveUsers, cid \in DOMAIN collections, t \in 1 .. MaxTrackId :
          RemoveTrack(u, cid, t)
    \/ \E u \in ActiveUsers, cid \in DOMAIN collections, t \in 1 .. MaxTrackId,
          o \in 1 .. MaxOrder : ReorderTrack(u, cid, t, o)
    \/ \E u \in ActiveUsers, cid \in DOMAIN collections, items \in BulkInputs :
          BulkReorderTracks(u, cid, items)
    \/ \E u \in ActiveUsers, f \in 1 .. 2, removed \in BOOLEAN :
          DeleteAudioFile(u, f, removed)

SpecTracks == InitTracks /\ [][NextTracks]_vars

(***************************************************************************)
(* Claims about the track ordering.                                        *)
(***************************************************************************)
\* The track_order values of collection cid are exactly 1..n, one row each.
DenseIn(tr, cid) ==
    /\ OrdersOf(tr, cid) = 1 .. Cardinality(TracksOf(tr, cid))
    /\ \A a, b \in TracksOf(tr, cid) : a.track_order = b.track_order => a = b

\* C1: after every add (with or without track_order), remove, reorder and
\* bulk reorder, the track_order values of each collection are exactly
\* {1, ..., n} with no duplicates, n being its number of tracks.  Stated of
\* the steps of these four handlers only: a step that starts from dense
\* collections ends in dense collections.
C1_DenseAfterTrackOps ==
    [][(/\ resp'.op \in {"add_track", "remove_track", "reorder_track", "bulk_reorder"}
        /\ \A cid \in DOMAIN collections : DenseIn(collection_tracks, cid))
       => \A cid \in DOMAIN collections : DenseIn(collection_tracks', cid)]_vars

\* C2: after delete_audio_file, every collection that contained the file
\* still has the dense ordering 1..n over its remaining n tracks.  Stated
\* of a successful delete that starts from dense collections.
C2_DenseAfterAudioDelete ==
    [][(/\ resp'.op = "delete_audio" /\ resp'.status = 200
        /\ audio_files' # audio_files
        /\ \A cid \in DOMAIN collections : DenseIn(collection_tracks, cid))
       => \A cid \in DOMAIN collections : DenseIn(collection_tracks', cid)]_vars

(***************************************************************************)
(* Tokens (app/core/security.py) and the token blacklist (app/crud.py,     *)
(* TOKEN BLACKLIST CRUD).  A JWT is the record of its claims together with *)
(* the key that signed it; time is counted in ticks of the clock `now`.    *)
(* The field `exchanged` is no part of the JWT: it records that a refresh  *)
(* request presenting the token has succeeded.                             *)
(***************************************************************************)
AccessTTL == 1       \* ACCESS_TOKEN_EXPIRE_MINUTES, in ticks
RefreshTTL == 2      \* REFRESH_TOKEN_EXPIRE_MINUTES, in ticks
MaxNow == 2          \* the clock stops here
MaxJti == 6          \* tokens ever issued
MaxAudit == 3        \* audit-log rows ever written

\* jose jwt.decode(token, key, algorithms): the signature was made with
\* key and the exp claim is not in the past (JWTError otherwise).
jwt_decode(t, key) == t.key = key /\ ~(t.exp < now)

create_access_token(sub, jti) ==
    [jti |-> jti, sub |-> sub, token_type |-> "access",
     key |-> config.secret_key, exp |-> now + AccessTTL, exchanged |-> FALSE]

create_refresh_token(sub, jti) ==
    [jti |-> jti, sub |-> sub, token_type |-> "refresh",
     key |-> config.refresh_token_secret_key, exp |-> now + RefreshTTL,
     exchanged |-> FALSE]

\* A token the server never issued: no key of the server signed it.
ForgedToken ==
    [jti |-> 0, sub |-> "alice", token_type |-> "access", key |-> "forged",
     exp |-> MaxNow + RefreshTTL, exchanged |-> FALSE]

\* What a request can carry as its Authorization header: nothing, or
\* "Bearer <token>".
Bearers == {Null} \cup {Some(t) : t \in tokens \cup {ForgedToken}}

\* A lookup that never finds an account by its username.
get_user_by_username_never(name) == {u \in DOMAIN users : FALSE}

get_user_by_username(name) == {u \in DOMAIN users : users[u].username = name}

\* A lookup that never finds an account by its email.
get_user_by_email_never(email) == {u \in DOMAIN users : FALSE}

get_user_by_email(email) == {u \in DOMAIN users : users[u].email = email}

is_token_revoked(jti) == \E r \in revoked_tokens : r.jti = jti

\* Insert if absent: a second revoke of the same jti changes nothing.
add_revoked_token(rt, jti, token_type, user_id, expires_at, reason) ==
    IF \E r \in rt : r.jti = jti THEN rt
    ELSE rt \cup {[jti |-> jti, token_type |-> token_type, user_id |-> user_id,
                   expires_at |-> expires_at, reason |-> reason]}

\* datetime.fromtimestamp(ts): the naive LOCAL time of the process, that is
\* the UTC time shifted by the offset of the server's time zone.
fromtimestamp(ts) == ts + config.tz_offset

\* Rows whose expires_at is before datetime.utcnow() are deleted.
cleanup_expired_tokens(rt) == {r \in rt : ~(r.expires_at < now)}

\* create_audit_log: one more row; user_id is nullable.
create_audit_log(logs, action, user_id, success) ==
    Append(logs, [action |-> action, user_id |-> user_id, success |-> success,
                  details |-> "details"])

(***************************************************************************)
(* Resolving the caller.  Each dependency yields a status (0: resolved)    *)
(* and the user.  Two families exist: app/dependencies.py, used by the     *)
(* users, audio and collections routers, and app/core/security.py, used    *)
(* by the admin and announcements routers and by every superuser endpoint. *)
(***************************************************************************)
Authenticated(u) == [status |-> 0, user |-> Some(u)]

Rejected(st) == [status |-> st, user |-> Null]

\* app/dependencies.py get_current_user.  HTTPBearer() answers a request
\* without an Authorization header itself, with 401.
dependencies_get_current_user(bearer) ==
    IF bearer = Null THEN Rejected(401)
    ELSE LET t == Val(bearer)
             found == get_user_by_username(t.sub)
         IN  IF ~jwt_decode(t, config.secret_key) THEN Rejected(401)
             ELSE IF found = {} THEN Rejected(401)
             ELSE Authenticated(CHOOSE u \in found : TRUE)

\* app/dependencies.py get_current_active_user
dependencies_get_current_active_user(bearer) ==
    LET r == dependencies_get_current_user(bearer)
    IN  IF r.status # 0 THEN r
        ELSE IF ~users[Val(r.user)].is_active THEN Rejected(400)
        ELSE r

\* app/dependencies.py get_optional_current_user: it depends on the same
\* HTTPBearer(), so a request without the header is answered 401 before
\* the function runs; an undecodable token, an unknown subject and an
\* inactive user give the anonymous caller (status 0, user Null).
get_optional_current_user(bearer) ==
    IF bearer = Null THEN Rejected(401)
    ELSE LET t == Val(bearer)
             found == get_user_by_username(t.sub)
         IN  IF ~jwt_decode(t, config.secret_key) THEN [status |-> 0, user |-> Null]
             ELSE IF found = {} THEN [status |-> 0, user |-> Null]
             ELSE LET u == CHOOSE v \in found : TRUE
                  IN  IF users[u].is_active THEN Authenticated(u)
                      ELSE [status |-> 0, user |-> Null]

\* app/core/security.py get_current_user
security_get_current_user(bearer) ==
    IF bearer = Null THEN Rejected(401)
    ELSE LET t == Val(bearer)
             found == get_user_by_username(t.sub)
         IN  IF ~jwt_decode(t, config.secret_key) THEN Rejected(401)
             ELSE IF t.token_type # "access" THEN Rejected(401)
             ELSE IF is_token_revoked(t.jti) THEN Rejected(401)
             ELSE IF found = {} THEN Rejected(401)
             ELSE Authenticated(CHOOSE u \in found : TRUE)

\* app/core/security.py get_current_active_superuser (through
\* get_current_active_user)
get_current_active_superuser(bearer) ==
    LET r == security_get_current_user(bearer)
    IN  IF r.status # 0 THEN r
        ELSE IF ~users[Val(r.user)].is_active THEN Rejected(403)
        ELSE IF ~users[Val(r.user)].is_superuser THEN Rejected(403)
        ELSE r

(***************************************************************************)
(* Session handlers (app/routers/users.py).                                *)
(***************************************************************************)
AuditRoom == Len(audit_logs) < MaxAudit

JtiRoom == next_id.jti + 1 <= MaxJti

\* The body of a login answer: the token pair with token_type "bearer", or
\* no token at all.
LoginResp(identifier, password, status, access, refresh) ==
    [op |-> "login", status |-> status, identifier |-> identifier,
     password |-> password, access_token |-> access, refresh_token |-> refresh,
     token_type |-> IF status = 200 THEN "bearer" ELSE None]

\* POST /users/token.  password is the submitted password after the
\* optional decryption of an X-Password-Encrypted body.
Login(identifier, password) ==
    LET by_email == get_user_by_email(identifier)
        found == IF by_email # {} THEN by_email ELSE get_user_by_username(identifier)
    IN  /\ AuditRoom
        /\ IF found = {} \/ (\E u \in found : users[u].hashed_password # password)
           THEN /\ audit_logs' = create_audit_log(audit_logs, "login.failed", Null, FALSE)
                /\ resp' = LoginResp(identifier, password, 401, Null, Null)
                /\ UNCHANGED <<tokens, next_id>>
           ELSE LET u == CHOOSE v \in found : TRUE
                IN  IF ~users[u].is_active
                    THEN /\ audit_logs' = create_audit_log(
                                audit_logs, "login.failed.inactive", Some(u), FALSE)
                         /\ resp' = LoginResp(identifier, password, 403, Null, Null)
                         /\ UNCHANGED <<tokens, next_id>>
                    ELSE /\ JtiRoom
                         /\ tokens' = tokens \cup
                                {create_access_token(users[u].username, next_id.jti),
                                 create_refresh_token(users[u].username, next_id.jti + 1)}
                         /\ next_id' = [next_id EXCEPT !.jti = @ + 2]
                         /\ audit_logs' = create_audit_log(
                                audit_logs, "login.success", Some(u), TRUE)
                         /\ resp' = LoginResp(identifier, password, 200,
                                Some(create_access_token(users[u].username, next_id.jti)),
                                Some(create_refresh_token(users[u].username, next_id.jti + 1)))
        /\ UNCHANGED <<users, audio_files, collections, collection_tracks,
                       collaborators, revoked_tokens, deletion_requests,
                       announcements, now, config, profile_pictures,
                       retention_policies, inflight, maintenance,
                       password_reset_tokens>>

\* POST /users/token/refresh, presenting the token t
RefreshToken(t) ==
    LET found == get_user_by_username(t.sub)
    IN  /\ IF \/ ~jwt_decode(t, config.refresh_token_secret_key)
              \/ is_token_revoked(t.jti)
              \/ t.token_type # "refresh"
              \/ found = {}
           THEN /\ resp' = [op |-> "refresh", status |-> 401, token |-> t]
                /\ UNCHANGED <<tokens, revoked_tokens, audit_logs, next_id>>
           ELSE LET u == CHOOSE v \in found : TRUE
                IN  /\ AuditRoom /\ JtiRoom
                    /\ revoked_tokens' = add_revoked_token(
                           revoked_tokens, t.jti, "refresh", u,
                           fromtimestamp(t.exp), "token_refresh")
                    /\ tokens' = ((tokens \ {t}) \cup {[t EXCEPT !.exchanged = TRUE]})
                           \cup {create_access_token(users[u].username, next_id.jti),
                                 create_refresh_token(users[u].username, next_id.jti + 1)}
                    /\ next_id' = [next_id EXCEPT !.jti = @ + 2]
                    /\ audit_logs' = create_audit_log(
                           audit_logs, "token.refresh", Some(u), TRUE)
                    /\ resp' = [op |-> "refresh", status |-> 200, token |-> t]
        /\ UNCHANGED <<users, audio_files, collections, collection_tracks,
                       collaborators, deletion_requests, announcements, now,
                       config, profile_pictures, retention_policies, inflight,
                       maintenance, password_reset_tokens>>

\* POST /users/logout, with the refresh token r in the body
Logout(bearer, r) ==
    LET a == dependencies_get_current_active_user(bearer)
    IN  /\ IF a.status # 0
           THEN /\ resp' = [op |-> "logout", status |-> a.status]
                /\ UNCHANGED <<revoked_tokens, audit_logs>>
           ELSE IF ~jwt_decode(r, config.refresh_token_secret_key)
           THEN /\ resp' = [op |-> "logout", status |-> 401]
                /\ UNCHANGED <<revoked_tokens, audit_logs>>
           ELSE /\ AuditRoom
                /\ revoked_tokens' = add_revoked_token(
                       revoked_tokens, r.jti, "refresh", Val(a.user),
                       fromtimestamp(r.exp), "logout")
                /\ audit_logs' = create_audit_log(
                       audit_logs, "logout.success", a.user, TRUE)
                /\ resp' = [op |-> "logout", status |-> 200]
        /\ UNCHANGED <<users, audio_files, collections, collection_tracks,
                       collaborators, deletion_requests, announcements, tokens,
                       next_id, now, config, profile_pictures,
                       retention_policies, inflight, maintenance,
                       password_reset_tokens>>

ReadOnly ==
    UNCHANGED <<users, audio_files, collections, collection_tracks,
                collaborators, revoked_tokens, audit_logs, deletion_requests,
                announcements, tokens, next_id, now, config, profile_pictures,
                retention_policies, inflight, maintenance,
                password_reset_tokens>>

\* GET /users/me: an endpoint behind app/dependencies.py
ReadUserMe(bearer) ==
    LET a == dependencies_get_current_active_user(bearer)
    IN  /\ resp' = [op |-> "read_user_me", bearer |-> bearer, user |-> a.user,
                    status |-> IF a.status = 0 THEN 200 ELSE a.status]
        /\ ReadOnly

\* GET /admin/announcements: an endpoint behind app/core/security.py
GetAllAnnouncements(bearer) ==
    LET a == get_current_active_superuser(bearer)
    IN  /\ resp' = [op |-> "get_all_announcements", bearer |-> bearer,
                    user |-> a.user,
                    status |-> IF a.status = 0 THEN 200 ELSE a.status]
        /\ ReadOnly

\* tasks/data_retention.py cleanup_expired_revoked_tokens (weekly job, and
\* the admin's manual trigger)
CleanupExpiredTokens ==
    /\ revoked_tokens' = cleanup_expired_tokens(revoked_tokens)
    /\ resp' = [op |-> "cleanup_expired_tokens", status |-> 0]
    /\ UNCHANGED <<users, audio_files, collections, collection_tracks,
                   collaborators, audit_logs, deletion_requests, announcements,
                   tokens, next_id, now, config, profile_pictures,
                   retention_policies, inflight, maintenance,
                   password_reset_tokens>>

\* The clock advances.
Tick ==
    /\ now < MaxNow
    /\ now' = now + 1
    /\ resp' = [op |-> "tick", status |-> 0]
    /\ UNCHANGED <<users, audio_files, collections, collection_tracks,
                   collaborators, revoked_tokens, audit_logs,
                   deletion_requests, announcements, tokens, next_id, config,
                   profile_pictures, retention_policies, inflight, maintenance,
                   password_reset_tokens>>

(***************************************************************************)
(* Registration and account deletion (app/crud.py USER DELETION CRUD,      *)
(* app/routers/users.py).  The database enforces the unique constraints    *)
(* on users.username and users.email and the foreign keys onto users.id:   *)
(* a commit that violates one raises IntegrityError and changes nothing.   *)
(***************************************************************************)
MaxUserId == 5       \* users rows ever inserted
DeletionGrace == 2   \* the 7 days of the grace period, in ticks
MaxDeletionRequestId == 2   \* user_deletion_requests rows ever inserted

\* POST /users/ with a body that passes the UserCreate validation; the
\* email is looked up before the username.
CreateUser(username, email, password) ==
    /\ IF get_user_by_email(email) # {} \/ get_user_by_username(username) # {}
       THEN /\ resp' = [op |-> "create_user", status |-> 400,
                        username |-> username, email |-> email,
                        detail |-> IF get_user_by_email(email) # {}
                                   THEN "Email already registered"
                                   ELSE "Username already taken"]
            /\ UNCHANGED <<users, next_id>>
       ELSE /\ next_id.user <= MaxUserId
            /\ users' = (next_id.user :> UserRow(username, email, password, FALSE))
                            @@ users
            /\ next_id' = [next_id EXCEPT !.user = @ + 1]
            /\ resp' = [op |-> "create_user", status |-> 200,
                        username |-> username, email |-> email, detail |-> None]
    /\ UNCHANGED <<audio_files, collections, collection_tracks, collaborators,
                   revoked_tokens, audit_logs, deletion_requests,
                   announcements, tokens, now, config, profile_pictures,
                   retention_policies, inflight, maintenance,
                   password_reset_tokens>>

\* A lookup that never finds a pending request.
get_deletion_request_never(uid) == {d \in deletion_requests : FALSE}

\* crud.get_deletion_request: the pending requests of the user
get_deletion_request(uid) ==
    {d \in deletion_requests : d.user_id = uid /\ d.status = "pending"}

\* POST /users/me/request-deletion, by the resolved caller u
RequestAccountDeletion(u, deletion_type) ==
    /\ u \in ActiveUsers
    /\ IF get_deletion_request(u) # {}
       THEN /\ resp' = [op |-> "request_deletion", status |-> 400,
                        user |-> u]
            /\ UNCHANGED <<deletion_requests, audit_logs, next_id>>
       ELSE /\ AuditRoom
            /\ next_id.deletion_request <= MaxDeletionRequestId
            /\ deletion_requests' = deletion_requests \cup
                   {[id |-> next_id.deletion_request, user_id |-> u,
                     scheduled_deletion_at |-> now + DeletionGrace,
                     deletion_type |-> deletion_type, status |-> "pending"]}
            /\ next_id' = [next_id EXCEPT !.deletion_request = @ + 1]
            /\ audit_logs' = create_audit_log(
                   audit_logs, "user.deletion_requested", Some(u), TRUE)
            /\ resp' = [op |-> "request_deletion", status |-> 200,
                        user |-> u]
    /\ UNCHANGED <<users, audio_files, collections, collection_tracks,
                   collaborators, revoked_tokens, announcements, tokens, now,
                   config, profile_pictures, retention_policies, inflight,
                   maintenance, password_reset_tokens>>

\* POST /users/me/cancel-deletion, by the resolved caller u
CancelAccountDeletion(u) ==
    /\ u \in ActiveUsers
    /\ IF get_deletion_request(u) = {}
       THEN /\ resp' = [op |-> "cancel_deletion", status |-> 404]
            /\ UNCHANGED <<deletion_requests, audit_logs>>
       ELSE LET d == CHOOSE x \in get_deletion_request(u) : TRUE
            IN  /\ AuditRoom
                /\ deletion_requests' = (deletion_requests \ {d}) \cup
                       {[d EXCEPT !.status = "cancelled"]}
                /\ audit_logs' = create_audit_log(
                       audit_logs, "user.deletion_cancelled", Some(u), TRUE)
                /\ resp' = [op |-> "cancel_deletion", status |-> 200]
    /\ UNCHANGED <<users, audio_files, collections, collection_tracks,
                   collaborators, revoked_tokens, announcements, tokens,
                   next_id, now, config, profile_pictures, retention_policies,
                   inflight, maintenance, password_reset_tokens>>

\* The tables a user deletion can touch, as they are now.
DeletionTables ==
    [users |-> users, audio_files |-> audio_files, collections |-> collections,
     collection_tracks |-> collection_tracks, collaborators |-> collaborators,
     audit_logs |-> audit_logs]

\* soft_delete_user over the tables db: [ok, db].  ok = FALSE: the commit
\* raised IntegrityError (another row holds the anonymized username or
\* email) and nothing changed.
soft_delete_user(db, uid) ==
    IF uid \notin DOMAIN db.users THEN [ok |-> TRUE, db |-> db]
    ELSE
    LET name == "deleted_user_" \o ToString(uid)
        mail == "deleted_" \o ToString(uid) \o "@deleted.account"
        row == [db.users[uid] EXCEPT !.is_active = FALSE, !.username = name,
                                     !.email = mail, !.display_name = None,
                                     !.bio = "deleted",
                                     !.profile_picture_url = None]
        taken == \E v \in DOMAIN db.users \ {uid} :
                     db.users[v].username = name \/ db.users[v].email = mail
    IN  IF taken THEN [ok |-> FALSE, db |-> db]
        ELSE [ok |-> TRUE,
              db |-> [db EXCEPT
                  !.users = [@ EXCEPT ![uid] = row],
                  !.audio_files = [f \in DOMAIN @ |->
                      IF @[f].owner_id = Some(uid)
                      THEN [@[f] EXCEPT !.is_public = FALSE] ELSE @[f]],
                  !.collections = [c \in DOMAIN @ |->
                      IF @[c].owner_id = uid
                      THEN [@[c] EXCEPT !.is_public = FALSE] ELSE @[c]]]]

\* The rows that reference users.id = uid through a foreign key that the
\* ORM neither cascades nor nulls (models.py declares no relationship
\* from User to them, the migration no ON DELETE action).
ReferencedByForeignKey(uid) ==
    \/ \E r \in revoked_tokens : r.user_id = uid
    \/ \E d \in deletion_requests : d.user_id = uid
    \/ \E a \in DOMAIN announcements : announcements[a].created_by_id = uid
    \/ \E r \in password_reset_tokens : r.user_id = uid

\* hard_delete_user over the tables db: [ok, db].  The user's audit rows
\* lose their user_id; db.delete(user) deletes the owned collections with
\* their tracks and collaborators and the user's own collaborator rows
\* (cascade), nulls audio_files.owner_id, and deletes the user row.
\* ok = FALSE: the DELETE violated a foreign key, the transaction was
\* rolled back and nothing changed.
hard_delete_user(db, uid) ==
    IF uid \notin DOMAIN db.users THEN [ok |-> TRUE, db |-> db]
    ELSE IF ReferencedByForeignKey(uid) THEN [ok |-> FALSE, db |-> db]
    ELSE
    LET owned == {c \in DOMAIN db.collections : db.collections[c].owner_id = uid}
    IN  [ok |-> TRUE,
         db |-> [users |-> [v \in DOMAIN db.users \ {uid} |-> db.users[v]],
                 audit_logs |-> [i \in DOMAIN db.audit_logs |->
                     IF db.audit_logs[i].user_id = Some(uid)
                     THEN [db.audit_logs[i] EXCEPT !.user_id = Null,
                               !.details = "User deleted - GDPR"]
                     ELSE db.audit_logs[i]],
                 collections |-> [c \in DOMAIN db.collections \ owned |->
                                     db.collections[c]],
                 collection_tracks |-> {t \in db.collection_tracks :
                                           t.collection_id \notin owned},
                 collaborators |-> {c \in db.collaborators :
                                       c.collection_id \notin owned /\ c.user_id # uid},
                 audio_files |-> [f \in DOMAIN db.audio_files |->
                     IF db.audio_files[f].owner_id = Some(uid)
                     THEN [db.audio_files[f] EXCEPT !.owner_id = Null]
                     ELSE db.audio_files[f]]]]

\* DELETE /users/me?password=..&deletion_type=.., by the resolved caller u.
\* The audit row is committed before the deletion is attempted.
DeleteAccountImmediately(u, password, deletion_type) ==
    /\ u \in ActiveUsers
    /\ AuditRoom
    /\ IF users[u].hashed_password # password
       THEN /\ audit_logs' = create_audit_log(
                   audit_logs, "user.deletion_failed", Some(u), FALSE)
            /\ resp' = [op |-> "delete_account", status |-> 401, user |-> u,
                        deletion_type |-> deletion_type]
            /\ UNCHANGED <<users, audio_files, collections, collection_tracks,
                           collaborators>>
       ELSE LET logged == [DeletionTables EXCEPT !.audit_logs =
                              create_audit_log(@,
                                  IF deletion_type = "soft" THEN "user.soft_delete"
                                  ELSE "user.hard_delete", Some(u), TRUE)]
                r == IF deletion_type = "soft" THEN soft_delete_user(logged, u)
                     ELSE hard_delete_user(logged, u)
            IN  /\ users' = r.db.users
                /\ audio_files' = r.db.audio_files
                /\ collections' = r.db.collections
                /\ collection_tracks' = r.db.collection_tracks
                /\ collaborators' = r.db.collaborators
                /\ audit_logs' = r.db.audit_logs
                /\ resp' = [op |-> "delete_account", user |-> u,
                            deletion_type |-> deletion_type,
                            status |-> IF r.ok THEN 200 ELSE 500]
    /\ UNCHANGED <<revoked_tokens, deletion_requests, announcements, tokens,
                   next_id, now, config, profile_pictures, retention_policies,
                   inflight, maintenance, password_reset_tokens>>

(***************************************************************************)
(* Specification of the sessions: logins, refreshes, logouts, requests     *)
(* behind either dependency family, the blacklist purge, the clock, and    *)
(* an account that deletes itself.  The deployment's settings are chosen   *)
(* at start: config.py declares SECRET_KEY and REFRESH_TOKEN_SECRET_KEY as *)
(* two strings without relating them, and the time zone of the process is *)
(* the environment's.                                                      *)
(***************************************************************************)
Deployments ==
    [tz_offset : {-1, 0, 1}, secret_key : {"k1"},
     refresh_token_secret_key : {"k1", "k2"}]

InitAuth ==
    /\ users = SeedUsers /\ audio_files = SeedAudio
    /\ collections = SeedCollections /\ collaborators = SeedCollaborators
    /\ collection_tracks = {}
    /\ revoked_tokens = {} /\ audit_logs = <<>> /\ deletion_requests = {}
    /\ announcements = <<>> /\ tokens = {}
    /\ next_id = SeedIds /\ now = 0 /\ config \in Deployments
    /\ maintenance = [enabled |-> FALSE] /\ password_reset_tokens = {}
    /\ profile_pictures = {} /\ retention_policies = {} /\ inflight = <<>>
    /\ resp = NoResp

NextAuth ==
    \/ \E id \in {"alice", "admin@example.com"}, pw \in {"pw_alice", "pw_admin"} :
          Login(id, pw)
    \/ \E t \in tokens \cup {ForgedToken} : RefreshToken(t)
    \/ \E t \in tokens, r \in tokens : Logout(Some(t), r)
    \/ \E b \in Bearers : ReadUserMe(b)
    \/ \E b \in Bearers : GetAllAnnouncements(b)
    \/ CleanupExpiredTokens
    \/ Tick
    \/ DeleteAccountImmediately(2, "pw_alice", "soft")

SpecAuth == InitAuth /\ [][NextAuth]_vars

(***************************************************************************)
(* Claims about the sessions.                                              *)
(***************************************************************************)
\* C3: a successful POST /users/token/refresh puts the presented refresh
\* token's jti on the blacklist and issues a new access/refresh pair; every
\* later refresh request presenting that same token (one whose exchange
\* has already succeeded) is answered 401 and issues no token.
C3_RefreshTokenSingleUse ==
    [][resp'.op = "refresh" =>
        /\ resp'.status = 200 =>
              /\ \E r \in revoked_tokens' : r.jti = resp'.token.jti
              /\ \E a, b \in tokens' \ tokens :
                    a.token_type = "access" /\ b.token_type = "refresh"
        /\ resp'.token.exchanged =>
              /\ resp'.status = 401
              /\ tokens' = tokens /\ next_id' = next_id]_vars

\* C4: an endpoint that requires an authenticated user answers 401 to a
\* bearer token whose jti is on the blacklist, to a token whose type claim
\* is not "access", and to a token whose subject is no existing user.
C4_BearerRejected ==
    [][(/\ resp'.op \in {"read_user_me", "get_all_announcements"}
        /\ resp'.bearer # Null
        /\ LET t == Val(resp'.bearer)
           IN  \/ is_token_revoked(t.jti)
               \/ t.token_type # "access"
               \/ get_user_by_username(t.sub) = {})
       => resp'.status = 401]_vars

(***************************************************************************)
(* Viewing a collection (app/routers/collections.py get_collection) and    *)
(* what changes its visibility: the collection's flags and its             *)
(* collaborator rows.                                                      *)
(***************************************************************************)
\* GET /collections/{collection_id}
GetCollection(bearer, cid) ==
    LET a == get_optional_current_user(bearer)
        st == IF a.status # 0 THEN a.status
              ELSE IF cid \notin DOMAIN collections THEN 404
              ELSE IF collections[cid].is_public THEN 200
              ELSE IF a.user = Null THEN 401
              ELSE IF ~(user_can_view_collection(cid, Val(a.user))
                        \/ users[Val(a.user)].is_superuser) THEN 403
              ELSE 200
    IN  /\ resp' = [op |-> "get_collection", status |-> st, bearer |-> bearer,
                    user |-> a.user, cid |-> cid]
        /\ ReadOnly

\* PUT /collections/{collection_id}, by the resolved caller u, setting the
\* two flags
UpdateCollection(u, cid, is_public, is_collaborative) ==
    /\ LET gate == EditGate(u, cid)
       IN  IF gate # 0
           THEN /\ resp' = [op |-> "update_collection", status |-> gate,
                            user |-> u, cid |-> cid]
                /\ UNCHANGED collections
           ELSE /\ collections' = [collections EXCEPT ![cid] =
                       [@ EXCEPT !.is_public = is_public,
                                 !.is_collaborative = is_collaborative]]
                /\ resp' = [op |-> "update_collection", status |-> 200,
                            user |-> u, cid |-> cid]
    /\ UNCHANGED <<users, audio_files, collection_tracks, collaborators,
                   revoked_tokens, audit_logs, deletion_requests,
                   announcements, tokens, next_id, now, config,
                   profile_pictures, retention_policies, inflight, maintenance,
                   password_reset_tokens>>

\* POST /collections/{collection_id}/collaborators, by the resolved caller u
AddCollectionCollaborator(u, cid, user_id, permission_level) ==
    /\ LET st == IF cid \notin DOMAIN collections THEN 404
                 ELSE IF collections[cid].owner_id # u /\ ~users[u].is_superuser
                      THEN 403
                 ELSE IF ~collections[cid].is_collaborative THEN 400
                 ELSE IF user_id \notin DOMAIN users THEN 404
                 ELSE IF user_id = collections[cid].owner_id THEN 400
                 ELSE IF CollaboratorRows(cid, user_id) # {} THEN 400
                 ELSE 200
       IN  /\ resp' = [op |-> "add_collaborator", status |-> st]
           /\ collaborators' =
                  IF st # 200 THEN collaborators
                  ELSE collaborators \cup
                           {[collection_id |-> cid, user_id |-> user_id,
                             permission_level |-> permission_level]}
    /\ UNCHANGED <<users, audio_files, collections, collection_tracks,
                   revoked_tokens, audit_logs, deletion_requests,
                   announcements, tokens, next_id, now, config,
                   profile_pictures, retention_policies, inflight, maintenance,
                   password_reset_tokens>>

\* DELETE /collections/{collection_id}/collaborators/{user_id}
RemoveCollectionCollaborator(u, cid, user_id) ==
    /\ LET st == IF cid \notin DOMAIN collections THEN 404
                 ELSE IF /\ collections[cid].owner_id # u
                         /\ user_id # u
                         /\ ~users[u].is_superuser THEN 403
                 ELSE IF CollaboratorRows(cid, user_id) = {} THEN 404
                 ELSE 200
       IN  /\ resp' = [op |-> "remove_collaborator", status |-> st]
           /\ collaborators' =
                  IF st # 200 THEN collaborators
                  ELSE collaborators \ CollaboratorRows(cid, user_id)
    /\ UNCHANGED <<users, audio_files, collections, collection_tracks,
                   revoked_tokens, audit_logs, deletion_requests,
                   announcements, tokens, next_id, now, config,
                   profile_pictures, retention_policies, inflight, maintenance,
                   password_reset_tokens>>

(***************************************************************************)
(* Specification of collection viewing: the three seeded users log in,     *)
(* the owner of collection 1 changes its flags and its collaborators, and  *)
(* callers with any credential, or none, fetch a collection.               *)
(***************************************************************************)
InitView ==
    /\ users = SeedUsers /\ audio_files = SeedAudio
    /\ collections = SeedCollections /\ collaborators = SeedCollaborators
    /\ collection_tracks = {}
    /\ revoked_tokens = {} /\ audit_logs = <<>> /\ deletion_requests = {}
    /\ announcements = <<>> /\ tokens = {}
    /\ next_id = SeedIds /\ now = 0 /\ config = SeedConfig
    /\ maintenance = [enabled |-> FALSE] /\ password_reset_tokens = {}
    /\ profile_pictures = {} /\ retention_policies = {} /\ inflight = <<>>
    /\ resp = NoResp

NextView ==
    \/ \E u \in DOMAIN users : Login(users[u].username, users[u].hashed_password)
    \/ \E b \in Bearers, cid \in 1 .. 3 : GetCollection(b, cid)
    \/ \E u \in {2, 3}, pub \in BOOLEAN, collab \in BOOLEAN :
          UpdateCollection(u, 1, pub, collab)
    \/ \E u \in {2, 3}, lvl \in {"view", "edit"} :
          AddCollectionCollaborator(u, 1, 3, lvl)
    \/ \E u \in {2, 3} : RemoveCollectionCollaborator(u, 1, 3)

SpecView == InitView /\ [][NextView]_vars

\* The caller that get_optional_current_user resolved may see the private
\* collection cid: its owner, a user with a collaborator row, a superuser.
MaySeePrivate(cid, u) ==
    \/ collections[cid].owner_id = u
    \/ \E c \in collaborators : c.collection_id = cid /\ c.user_id = u
    \/ users[u].is_superuser

\* C5: GET /collections/{id} returns a public collection to every caller,
\* also one that sends no credentials; a private collection is returned
\* to its owner and to a user with a collaborator row, answers 403 to an
\* authenticated user who is none of these (nor a superuser), and 401 to
\* a caller that sends no credentials.
C5_CollectionVisibility ==
    [][(resp'.op = "get_collection" /\ resp'.cid \in DOMAIN collections) =>
        LET c == collections[resp'.cid]
        IN  /\ c.is_public => resp'.status = 200
            /\ (~c.is_public /\ resp'.bearer = Null) => resp'.status = 401
            /\ (~c.is_public /\ resp'.user # Null) =>
                  resp'.status = IF MaySeePrivate(resp'.cid, Val(resp'.user))
                                 THEN 200 ELSE 403]_vars

(***************************************************************************)
(* Audio uploads and the upload quota (app/routers/audio.py, app/crud.py). *)
(***************************************************************************)
MaxAudioId == 5      \* audio_files rows ever inserted
MaxLimit == 2        \* largest max_audio_uploads an admin sets

get_user_audio_files_count(uid) ==
    Cardinality({f \in DOMAIN audio_files : audio_files[f].owner_id = Some(uid)})

\* A faulty quota check that lets a user at the limit upload once more.
can_user_upload_audio_at_limit(uid) ==
    LET n == get_user_audio_files_count(uid)
    IN  IF users[uid].is_superuser
        THEN [can_upload |-> TRUE, current_count |-> n, max_allowed |-> -1]
        ELSE [can_upload |-> n <= users[uid].max_audio_uploads,
              current_count |-> n, max_allowed |-> users[uid].max_audio_uploads]

\* can_user_upload_audio: (can_upload, current_count, max_allowed)
can_user_upload_audio(uid) ==
    LET n == get_user_audio_files_count(uid)
    IN  IF users[uid].is_superuser
        THEN [can_upload |-> TRUE, current_count |-> n, max_allowed |-> -1]
        ELSE [can_upload |-> n < users[uid].max_audio_uploads,
              current_count |-> n, max_allowed |-> users[uid].max_audio_uploads]

\* get_user_upload_stats
get_user_upload_stats(uid) ==
    LET n == get_user_audio_files_count(uid)
        left == users[uid].max_audio_uploads - n
    IN  [used_uploads |-> n,
         max_uploads |-> IF users[uid].is_superuser THEN -1
                         ELSE users[uid].max_audio_uploads,
         remaining_uploads |-> IF users[uid].is_superuser THEN -1
                               ELSE IF left > 0 THEN left ELSE 0]

\* POST /audio/upload, by the resolved caller u.  type_ok: the content type
\* is an allowed one; size_ok: the file is neither empty nor over 50 MB;
\* stored: the object store took the object.
UploadAudioFile(u, type_ok, size_ok, stored, is_public) ==
    /\ LET q == can_user_upload_audio(u)
           st == IF ~q.can_upload THEN 403
                 ELSE IF ~type_ok THEN 400
                 ELSE IF ~size_ok THEN 400
                 ELSE IF ~stored THEN 500
                 ELSE 200
       IN  /\ st = 200 => next_id.audio <= MaxAudioId
           /\ resp' = [op |-> "upload_audio", status |-> st, user |-> u,
                       valid |-> type_ok /\ size_ok /\ stored]
           /\ IF st = 200
              THEN /\ audio_files' = (next_id.audio :> AudioRow(u, is_public))
                                         @@ audio_files
                   /\ next_id' = [next_id EXCEPT !.audio = @ + 1]
              ELSE UNCHANGED <<audio_files, next_id>>
    /\ UNCHANGED <<users, collections, collection_tracks, collaborators,
                   revoked_tokens, audit_logs, deletion_requests,
                   announcements, tokens, now, config, profile_pictures,
                   retention_policies, inflight, maintenance,
                   password_reset_tokens>>

\* GET /audio/stats, by the resolved caller u
GetUploadStats(u) ==
    /\ resp' = [op |-> "get_upload_stats", status |-> 200, user |-> u,
                stats |-> get_user_upload_stats(u)]
    /\ ReadOnly

\* PUT /admin/users/{user_id}/upload-limit, by the resolved superuser u
UpdateUserUploadLimit(u, user_id, max_audio_uploads) ==
    /\ LET st == IF user_id \notin DOMAIN users THEN 404
                 ELSE IF users[user_id].is_superuser /\ user_id # u THEN 400
                 ELSE 200
       IN  /\ resp' = [op |-> "update_upload_limit", status |-> st]
           /\ users' = IF st # 200 THEN users
                       ELSE [users EXCEPT ![user_id].max_audio_uploads =
                                max_audio_uploads]
    /\ UNCHANGED <<audio_files, collections, collection_tracks, collaborators,
                   revoked_tokens, audit_logs, deletion_requests,
                   announcements, tokens, next_id, now, config,
                   profile_pictures, retention_policies, inflight, maintenance,
                   password_reset_tokens>>

(***************************************************************************)
(* Specification of the uploads: users upload and delete files, the        *)
(* superuser changes limits, everyone reads the own statistics.            *)
(***************************************************************************)
InitUpload ==
    /\ users = SeedUsers /\ audio_files = SeedAudio
    /\ collections = SeedCollections /\ collaborators = SeedCollaborators
    /\ collection_tracks = {}
    /\ revoked_tokens = {} /\ audit_logs = <<>> /\ deletion_requests = {}
    /\ announcements = <<>> /\ tokens = {}
    /\ next_id = SeedIds /\ now = 0 /\ config = SeedConfig
    /\ maintenance = [enabled |-> FALSE] /\ password_reset_tokens = {}
    /\ profile_pictures = {} /\ retention_policies = {} /\ inflight = <<>>
    /\ resp = NoResp

NextUpload ==
    \/ \E u \in {1, 2}, type_ok \in BOOLEAN, size_ok \in BOOLEAN, stored \in BOOLEAN :
          UploadAudioFile(u, type_ok, size_ok, stored, FALSE)
    \/ \E u \in {1, 2} : GetUploadStats(u)
    \/ \E target \in {1, 2}, l \in 0 .. MaxLimit : UpdateUserUploadLimit(1, target, l)
    \/ \E u \in {1, 2}, f \in 1 .. MaxAudioId, removed \in BOOLEAN :
          DeleteAudioFile(u, f, removed)

SpecUpload == InitUpload /\ [][NextUpload]_vars

\* C6: for a non-superuser with limit L an upload is rejected with 403,
\* and no audio-file row is created, exactly when the user already owns L
\* or more files; below L a valid upload is stored as one more file of the
\* user, so from 0 files exactly L uploads in a row succeed.  A superuser
\* is never rejected for quota and its remaining_uploads is -1.
C6_UploadQuota ==
    [][/\ resp'.op = "upload_audio" =>
            LET u == resp'.user
                n == get_user_audio_files_count(u)
                L == users[u].max_audio_uploads
                over == ~users[u].is_superuser /\ n >= L
            IN  /\ resp'.status = 403 <=> over
                /\ over => audio_files' = audio_files
                /\ (~over /\ resp'.valid) =>
                      /\ resp'.status = 200
                      /\ \E f \in DOMAIN audio_files' \ DOMAIN audio_files :
                            audio_files'[f].owner_id = Some(u)
                      /\ Cardinality({f \in DOMAIN audio_files' :
                             audio_files'[f].owner_id = Some(u)}) = n + 1
       /\ resp'.op = "get_upload_stats" =>
            (users[resp'.user].is_superuser <=> resp'.stats.remaining_uploads = -1)]_vars

\* C6 happens: a non-superuser that owns as many files as its limit of two,
\* the second one uploaded by itself, has just been refused a third.
C6_Witness ==
    /\ resp.op = "upload_audio" /\ resp.status = 403
    /\ ~users[resp.user].is_superuser
    /\ users[resp.user].max_audio_uploads = MaxLimit
    /\ get_user_audio_files_count(resp.user) = MaxLimit
    /\ \E f \in DOMAIN audio_files :
          f >= SeedIds.audio /\ audio_files[f].owner_id = Some(resp.user)

(***************************************************************************)
(* Specification of the accounts: people register, also under names of the *)
(* anonymized form, users ask for their deletion, withdraw, or delete      *)
(* their account at once, softly or for good.                              *)
(***************************************************************************)
InitAccount ==
    /\ users = SeedUsers /\ audio_files = SeedAudio
    /\ collections = SeedCollections /\ collaborators = SeedCollaborators
    /\ collection_tracks = {}
    /\ revoked_tokens = {} /\ audit_logs = <<>> /\ deletion_requests = {}
    /\ announcements = <<>> /\ tokens = {}
    /\ next_id = SeedIds /\ now = 0 /\ config = SeedConfig
    /\ maintenance = [enabled |-> FALSE] /\ password_reset_tokens = {}
    /\ profile_pictures = {} /\ retention_policies = {} /\ inflight = <<>>
    /\ resp = NoResp

NextAccount ==
    \/ \E reg \in {<<"carol", "carol@example.com">>,
                   <<"deleted_user_2", "dora@example.com">>} :
          CreateUser(reg[1], reg[2], "pw_new")
    \/ \E u \in {2, 3}, deletion_type \in {"soft", "hard"} :
          RequestAccountDeletion(u, deletion_type)
    \/ \E u \in {2, 3} : CancelAccountDeletion(u)
    \/ \E u \in {2, 3}, password \in {"pw_alice", "pw_bob"},
          deletion_type \in {"soft", "hard"} :
          DeleteAccountImmediately(u, password, deletion_type)

SpecAccount == InitAccount /\ [][NextAccount]_vars

\* C7: after soft_delete_user(u) the row of u still exists, inactive, with
\* username deleted_user_{u}, email deleted_{u}@deleted.account, bio
\* "deleted", no display name and no profile picture; every audio file and
\* collection of u is private; no row of another user has changed.
C7_SoftDeleteAnonymizes ==
    [][(/\ resp'.op = "delete_account"
        /\ resp'.deletion_type = "soft"
        /\ resp'.status # 401) =>
            LET u == resp'.user
            IN  /\ u \in DOMAIN users'
                /\ ~users'[u].is_active
                /\ users'[u].username = "deleted_user_" \o ToString(u)
                /\ users'[u].email = "deleted_" \o ToString(u) \o "@deleted.account"
                /\ users'[u].bio = "deleted"
                /\ users'[u].display_name = None
                /\ users'[u].profile_picture_url = None
                /\ \A f \in DOMAIN audio_files' :
                      audio_files'[f].owner_id = Some(u) => ~audio_files'[f].is_public
                /\ \A c \in DOMAIN collections' :
                      collections'[c].owner_id = u => ~collections'[c].is_public
                /\ \A v \in DOMAIN users \ {u} :
                      v \in DOMAIN users' /\ users'[v] = users[v]
                /\ \A f \in DOMAIN audio_files :
                      audio_files[f].owner_id # Some(u) =>
                          f \in DOMAIN audio_files' /\ audio_files'[f] = audio_files[f]
                /\ \A c \in DOMAIN collections :
                      collections[c].owner_id # u =>
                          c \in DOMAIN collections' /\ collections'[c] = collections[c]
                /\ collection_tracks' = collection_tracks
                /\ collaborators' = collaborators]_vars

\* C8: after hard_delete_user(u) there is no user row u, there are as many
\* audit-log entries as before the call (the handler has written its own
\* entry before it calls), every entry that referenced u has user_id null,
\* and the entries of other users are unchanged.
C8_HardDeleteKeepsAuditTrail ==
    [][(/\ resp'.op = "delete_account"
        /\ resp'.deletion_type = "hard"
        /\ resp'.status # 401) =>
            LET u == resp'.user
            IN  /\ u \notin DOMAIN users'
                /\ Len(audit_logs') = Len(audit_logs) + 1
                /\ \A i \in 1 .. Len(audit_logs) :
                      IF audit_logs[i].user_id = Some(u)
                      THEN audit_logs'[i].user_id = Null
                      ELSE audit_logs'[i] = audit_logs[i]
                /\ audit_logs'[Len(audit_logs')].user_id = Null]_vars

(***************************************************************************)
(* Announcements (app/routers/announcements.py, ANNOUNCEMENT CRUD).  A row *)
(* is [is_published, published_date, created_by_id]; title and content do  *)
(* not bear on the publication date and are left out.                      *)
(***************************************************************************)
MaxAnnouncementId == 2   \* announcements rows ever inserted

\* crud.create_announcement: the inserted row
create_announcement(is_published, created_by_id) ==
    [is_published |-> is_published,
     published_date |-> IF is_published THEN Some(now) ELSE Null,
     created_by_id |-> created_by_id]

\* The fields an AnnouncementUpdate body can carry for is_published:
\* absent, an explicit null, true or false.
IsPublishedUpdates == {"unset", "null", "true", "false"}

\* A faulty update that keeps the publication date of an announcement that
\* is taken back.
update_announcement_keeps_date(row, is_published) ==
    IF is_published = "unset" THEN [ok |-> TRUE, row |-> row]
    ELSE IF is_published = "null" THEN [ok |-> FALSE, row |-> row]
    ELSE IF is_published = "true"
    THEN [ok |-> TRUE,
          row |-> [row EXCEPT !.is_published = TRUE,
                     !.published_date = IF ~row.is_published THEN Some(now) ELSE @]]
    ELSE [ok |-> TRUE, row |-> [row EXCEPT !.is_published = FALSE]]

\* crud.update_announcement on an existing row: [ok, row].  An explicit
\* null is written to the NOT NULL column is_published, the commit raises
\* IntegrityError (ok = FALSE) and the row stays as it was.
update_announcement(row, is_published) ==
    IF is_published = "unset" THEN [ok |-> TRUE, row |-> row]
    ELSE IF is_published = "null" THEN [ok |-> FALSE, row |-> row]
    ELSE IF is_published = "true"
    THEN [ok |-> TRUE,
          row |-> [row EXCEPT !.is_published = TRUE,
                     !.published_date = IF ~row.is_published THEN Some(now) ELSE @]]
    ELSE [ok |-> TRUE,
          row |-> [row EXCEPT !.is_published = FALSE, !.published_date = Null]]

\* POST /admin/announcements, by the resolved superuser u
CreateAnnouncement(u, is_published) ==
    /\ AuditRoom
    /\ next_id.announcement <= MaxAnnouncementId
    /\ announcements' = (next_id.announcement :> create_announcement(is_published, u))
                            @@ announcements
    /\ next_id' = [next_id EXCEPT !.announcement = @ + 1]
    /\ audit_logs' = create_audit_log(audit_logs, "announcement.created", Some(u), TRUE)
    /\ resp' = [op |-> "create_announcement", status |-> 200,
                id |-> next_id.announcement]
    /\ UNCHANGED <<users, audio_files, collections, collection_tracks,
                   collaborators, revoked_tokens, deletion_requests, tokens,
                   now, config, profile_pictures, retention_policies, inflight,
                   maintenance, password_reset_tokens>>

\* PUT /admin/announcements/{announcement_id}, by the resolved superuser u
UpdateAnnouncement(u, announcement_id, is_published) ==
    /\ AuditRoom
    /\ IF announcement_id \notin DOMAIN announcements
       THEN /\ resp' = [op |-> "update_announcement", status |-> 404,
                        id |-> announcement_id, was_published |-> FALSE]
            /\ UNCHANGED <<announcements, audit_logs>>
       ELSE LET r == update_announcement(announcements[announcement_id], is_published)
            IN  /\ announcements' = [announcements EXCEPT ![announcement_id] = r.row]
                /\ audit_logs' = IF r.ok
                                 THEN create_audit_log(audit_logs,
                                          "announcement.updated", Some(u), TRUE)
                                 ELSE audit_logs
                /\ resp' = [op |-> "update_announcement",
                            status |-> IF r.ok THEN 200 ELSE 500,
                            id |-> announcement_id,
                            was_published |-> announcements[announcement_id].is_published]
    /\ UNCHANGED <<users, audio_files, collections, collection_tracks,
                   collaborators, revoked_tokens, deletion_requests, tokens,
                   next_id, now, config, profile_pictures, retention_policies,
                   inflight, maintenance, password_reset_tokens>>

(***************************************************************************)
(* Specification of the announcements: the superuser creates and updates   *)
(* announcements while the clock runs.                                     *)
(***************************************************************************)
InitAnn ==
    /\ users = SeedUsers /\ audio_files = SeedAudio
    /\ collections = SeedCollections /\ collaborators = SeedCollaborators
    /\ collection_tracks = {}
    /\ revoked_tokens = {} /\ audit_logs = <<>> /\ deletion_requests = {}
    /\ announcements = <<>> /\ tokens = {}
    /\ next_id = SeedIds /\ now = 0 /\ config = SeedConfig
    /\ maintenance = [enabled |-> FALSE] /\ password_reset_tokens = {}
    /\ profile_pictures = {} /\ retention_policies = {} /\ inflight = <<>>
    /\ resp = NoResp

NextAnn ==
    \/ \E is_published \in BOOLEAN : CreateAnnouncement(1, is_published)
    \/ \E a \in 1 .. MaxAnnouncementId, is_published \in IsPublishedUpdates :
          UpdateAnnouncement(1, a, is_published)
    \/ Tick

SpecAnn == InitAnn /\ [][NextAnn]_vars

\* C9: after every create and update an announcement's published_date is
\* null exactly when is_published is false: it is set to the current time
\* when the announcement is created published or goes from unpublished to
\* published, and is null again once it is unpublished.
C9_PublishedDateIffPublished ==
    [][\A a \in DOMAIN announcements' :
          LET new == announcements'[a]
          IN  /\ new.published_date = Null <=> ~new.is_published
              /\ (a \notin DOMAIN announcements /\ new.is_published)
                     => new.published_date = Some(now)
              /\ (a \in DOMAIN announcements /\ ~announcements[a].is_published
                     /\ new.is_published) => new.published_date = Some(now)
              /\ (a \in DOMAIN announcements /\ announcements[a].is_published
                     /\ ~new.is_published) => new.published_date = Null]_vars

\* C9 happens: a published announcement has just been unpublished by an
\* update, and its publication date is gone.
C9_Witness ==
    /\ resp.op = "update_announcement" /\ resp.status = 200
    /\ resp.was_published
    /\ ~announcements[resp.id].is_published
    /\ announcements[resp.id].published_date = Null

(***************************************************************************)
(* Maintenance mode (app/core/maintenance_state.py,                        *)
(* app/middleware/maintenance.py) and the application that app/main.py     *)
(* assembles.  maintenance.enabled is MaintenanceState._enabled of the     *)
(* process-wide instance; the message does not bear on who is served.      *)
(***************************************************************************)
HealthPath == "/health"
UsersMePath == "/api/v1/users/me"
MaintenanceEnablePath == "/api/v1/admin/maintenance/enable"
Paths == {HealthPath, UsersMePath, MaintenanceEnablePath}

\* The paths the middleware lets through in every state: /health and the
\* paths that start with /api/v1/admin/maintenance.
ExemptPaths == {HealthPath, MaintenanceEnablePath}

\* maintenance_mode_middleware: "call_next" when the request is handed on,
\* "503" when the middleware answers it itself.
maintenance_mode_middleware(path, bearer) ==
    IF path \in ExemptPaths THEN "call_next"
    ELSE IF ~maintenance.enabled THEN "call_next"
    ELSE IF bearer = Null THEN "503"
    ELSE LET t == Val(bearer)
             found == get_user_by_username(t.sub)
         IN  IF /\ jwt_decode(t, config.secret_key)
                /\ \E u \in found : users[u].is_superuser
             THEN "call_next" ELSE "503"

\* MaintenanceState.enable on the process-wide instance
EnableMaintenance ==
    /\ maintenance' = [maintenance EXCEPT !.enabled = TRUE]
    /\ resp' = [op |-> "enable_maintenance", status |-> 0]
    /\ UNCHANGED <<users, audio_files, collections, collection_tracks,
                   collaborators, revoked_tokens, audit_logs,
                   deletion_requests, announcements, tokens, next_id, now,
                   config, profile_pictures, retention_policies, inflight,
                   password_reset_tokens>>

\* MaintenanceState.disable on the process-wide instance
DisableMaintenance ==
    /\ maintenance' = [maintenance EXCEPT !.enabled = FALSE]
    /\ resp' = [op |-> "disable_maintenance", status |-> 0]
    /\ UNCHANGED <<users, audio_files, collections, collection_tracks,
                   collaborators, revoked_tokens, audit_logs,
                   deletion_requests, announcements, tokens, next_id, now,
                   config, profile_pictures, retention_policies, inflight,
                   password_reset_tokens>>

\* One HTTP request to the application of app/main.py.  Its middleware are
\* SlowAPIMiddleware, security_headers, CORSMiddleware and
\* TrustedHostMiddleware, its routers users, admin, files, audio,
\* collections and announcements: maintenance_mode_middleware is not among
\* the former and routers/maintenance.py not among the latter, so every
\* request is routed (routed = TRUE), no response carries Retry-After, and
\* a path under /api/v1/admin/maintenance has no route.
Request(path, bearer) ==
    /\ LET a == dependencies_get_current_active_user(bearer)
           st == IF path = HealthPath THEN 200
                 ELSE IF path = UsersMePath
                 THEN (IF a.status = 0 THEN 200 ELSE a.status)
                 ELSE 404
       IN  resp' = [op |-> "request", path |-> path, bearer |-> bearer,
                    status |-> st, routed |-> TRUE, retry_after |-> Null]
    /\ ReadOnly

(***************************************************************************)
(* Specification of the maintenance switch: users log in, the flag is      *)
(* switched on and off, and requests arrive with and without credentials.  *)
(***************************************************************************)
InitMaint ==
    /\ users = SeedUsers /\ audio_files = SeedAudio
    /\ collections = SeedCollections /\ collaborators = SeedCollaborators
    /\ collection_tracks = {}
    /\ revoked_tokens = {} /\ audit_logs = <<>> /\ deletion_requests = {}
    /\ announcements = <<>> /\ tokens = {}
    /\ next_id = SeedIds /\ now = 0 /\ config = SeedConfig
    /\ maintenance = [enabled |-> FALSE] /\ password_reset_tokens = {}
    /\ profile_pictures = {} /\ retention_policies = {} /\ inflight = <<>>
    /\ resp = NoResp

NextMaint ==
    \/ \E who \in {<<"alice", "pw_alice">>, <<"admin", "pw_admin">>} :
          Login(who[1], who[2])
    \/ EnableMaintenance
    \/ DisableMaintenance
    \/ \E path \in Paths, bearer \in Bearers : Request(path, bearer)

SpecMaint == InitMaint /\ [][NextMaint]_vars

\* The bearer is a valid token of a superuser.
SuperuserBearer(bearer) ==
    /\ bearer # Null
    /\ jwt_decode(Val(bearer), config.secret_key)
    /\ \E u \in get_user_by_username(Val(bearer).sub) : users[u].is_superuser

\* C10: while maintenance mode is enabled a request to a non-exempt path
\* from a caller that is not a superuser is answered 503 with Retry-After
\* 3600 and is not routed; the same request with a superuser's bearer
\* token is routed; a request to /health is routed in every state.
C10_MaintenanceGate ==
    [][resp'.op = "request" =>
          /\ (/\ maintenance.enabled
              /\ resp'.path \notin ExemptPaths
              /\ ~SuperuserBearer(resp'.bearer))
                 => /\ resp'.status = 503
                    /\ resp'.retry_after = Some(3600)
                    /\ ~resp'.routed
          /\ (/\ maintenance.enabled
              /\ resp'.path \notin ExemptPaths
              /\ SuperuserBearer(resp'.bearer)) => resp'.routed
          /\ resp'.path = HealthPath => resp'.routed]_vars

(***************************************************************************)
(* Account administration (app/routers/admin.py) and the login contract.   *)
(***************************************************************************)
\* A disable endpoint that refuses only a missing or already disabled
\* target.
DisableUserAnyTarget(u, user_id) ==
    /\ u \in ActiveUsers /\ users[u].is_superuser
    /\ LET st == IF user_id \notin DOMAIN users THEN 404
                 ELSE IF ~users[user_id].is_active THEN 400
                 ELSE 200
       IN  /\ st = 200 => AuditRoom
           /\ resp' = [op |-> "disable_user", status |-> st, user |-> u,
                       target |-> user_id]
           /\ users' = IF st = 200
                       THEN [users EXCEPT ![user_id].is_active = FALSE] ELSE users
           /\ audit_logs' = IF st = 200
                            THEN create_audit_log(audit_logs, "user.disabled",
                                                  Some(u), TRUE)
                            ELSE audit_logs
    /\ UNCHANGED <<audio_files, collections, collection_tracks, collaborators,
                   revoked_tokens, deletion_requests, announcements, tokens,
                   next_id, now, config, profile_pictures, retention_policies,
                   inflight, maintenance, password_reset_tokens>>

\* POST /admin/users/{user_id}/disable, by the resolved superuser u
DisableUser(u, user_id) ==
    /\ u \in ActiveUsers /\ users[u].is_superuser
    /\ LET st == IF user_id \notin DOMAIN users THEN 404
                 ELSE IF users[user_id].is_superuser /\ user_id # u THEN 400
                 ELSE IF user_id = u THEN 400
                 ELSE IF ~users[user_id].is_active THEN 400
                 ELSE 200
       IN  /\ st = 200 => AuditRoom
           /\ resp' = [op |-> "disable_user", status |-> st, user |-> u,
                       target |-> user_id]
           /\ users' = IF st = 200
                       THEN [users EXCEPT ![user_id].is_active = FALSE] ELSE users
           /\ audit_logs' = IF st = 200
                            THEN create_audit_log(audit_logs, "user.disabled",
                                                  Some(u), TRUE)
                            ELSE audit_logs
    /\ UNCHANGED <<audio_files, collections, collection_tracks, collaborators,
                   revoked_tokens, deletion_requests, announcements, tokens,
                   next_id, now, config, profile_pictures, retention_policies,
                   inflight, maintenance, password_reset_tokens>>

\* POST /admin/users/{user_id}/enable, by the resolved superuser u
EnableUser(u, user_id) ==
    /\ u \in ActiveUsers /\ users[u].is_superuser
    /\ LET st == IF user_id \notin DOMAIN users THEN 404
                 ELSE IF users[user_id].is_active THEN 400
                 ELSE 200
       IN  /\ st = 200 => AuditRoom
           /\ resp' = [op |-> "enable_user", status |-> st, user |-> u,
                       target |-> user_id]
           /\ users' = IF st = 200
                       THEN [users EXCEPT ![user_id].is_active = TRUE] ELSE users
           /\ audit_logs' = IF st = 200
                            THEN create_audit_log(audit_logs, "user.enabled",
                                                  Some(u), TRUE)
                            ELSE audit_logs
    /\ UNCHANGED <<audio_files, collections, collection_tracks, collaborators,
                   revoked_tokens, deletion_requests, announcements, tokens,
                   next_id, now, config, profile_pictures, retention_policies,
                   inflight, maintenance, password_reset_tokens>>

(***************************************************************************)
(* Specification of the logins: people log in by username or email with    *)
(* right and wrong passwords while the superuser disables and enables      *)
(* accounts and a user deactivates the own account.                        *)
(***************************************************************************)
LoginIdentifiers ==
    {"alice", "alice@example.com", "bob", "nobody", "deleted_user_2",
     "deleted_2@deleted.account"}

LoginPasswords == {"pw_alice", "pw_bob", "pw_wrong"}

InitLogin ==
    /\ users = SeedUsers /\ audio_files = SeedAudio
    /\ collections = SeedCollections /\ collaborators = SeedCollaborators
    /\ collection_tracks = {}
    /\ revoked_tokens = {} /\ audit_logs = <<>> /\ deletion_requests = {}
    /\ announcements = <<>> /\ tokens = {}
    /\ next_id = SeedIds /\ now = 0 /\ config = SeedConfig
    /\ maintenance = [enabled |-> FALSE] /\ password_reset_tokens = {}
    /\ profile_pictures = {} /\ retention_policies = {} /\ inflight = <<>>
    /\ resp = NoResp

NextLogin ==
    \/ \E identifier \in LoginIdentifiers, password \in LoginPasswords :
          Login(identifier, password)
    \/ \E user_id \in 1 .. MaxUserId : DisableUser(1, user_id)
    \/ \E user_id \in 1 .. MaxUserId : EnableUser(1, user_id)
    \/ DeleteAccountImmediately(2, "pw_alice", "soft")
    \/ Tick

SpecLogin == InitLogin /\ [][NextLogin]_vars

\* The accounts the submitted identifier names, by username or by email.
AccountsNamed(identifier) ==
    {u \in DOMAIN users :
        users[u].username = identifier \/ users[u].email = identifier}

\* C11: POST /users/token answers correct credentials of an active account
\* with an access token, a refresh token and token_type "bearer"; a wrong
\* password or an identifier that names no user with 401 and no tokens;
\* correct credentials of a disabled account with 403 and no tokens.
C11_LoginContract ==
    [][resp'.op = "login" =>
          LET named == AccountsNamed(resp'.identifier)
              right == {u \in named : users[u].hashed_password = resp'.password}
              issued == tokens' \ tokens
          IN  /\ (\E u \in right : users[u].is_active) =>
                    /\ resp'.status = 200
                    /\ resp'.token_type = "bearer"
                    /\ resp'.access_token # Null /\ resp'.refresh_token # Null
                    /\ Val(resp'.access_token).token_type = "access"
                    /\ Val(resp'.refresh_token).token_type = "refresh"
                    /\ issued = {Val(resp'.access_token), Val(resp'.refresh_token)}
                    /\ \A t \in issued : \E u \in right : t.sub = users[u].username
                    /\ jwt_decode(Val(resp'.access_token), config.secret_key)
                    /\ jwt_decode(Val(resp'.refresh_token),
                                  config.refresh_token_secret_key)
              /\ right = {} =>
                    /\ resp'.status = 401
                    /\ resp'.access_token = Null /\ resp'.refresh_token = Null
                    /\ issued = {}
              /\ (\E u \in right : ~users[u].is_active) =>
                    /\ resp'.status = 403
                    /\ resp'.access_token = Null /\ resp'.refresh_token = Null
                    /\ issued = {}]_vars

\* C11 happens: an account logged in, was disabled by the superuser, and
\* its login with the right password has just been refused with 403.
C11_Witness ==
    /\ resp.op = "login" /\ resp.status = 403
    /\ tokens # {}
    /\ \E u \in AccountsNamed(resp.identifier) :
          /\ users[u].hashed_password = resp.password
          /\ users[u].username = "alice"
          /\ ~users[u].is_active

(***************************************************************************)
(* Specification of the registrations: people register under new and used  *)
(* usernames and emails while a user deactivates the own account.          *)
(***************************************************************************)
RegisterUsernames == {"alice", "carol", "deleted_user_2"}

RegisterEmails == {"alice@example.com", "carol@example.com", "dora@example.com"}

InitRegister ==
    /\ users = SeedUsers /\ audio_files = SeedAudio
    /\ collections = SeedCollections /\ collaborators = SeedCollaborators
    /\ collection_tracks = {}
    /\ revoked_tokens = {} /\ audit_logs = <<>> /\ deletion_requests = {}
    /\ announcements = <<>> /\ tokens = {}
    /\ next_id = SeedIds /\ now = 0 /\ config = SeedConfig
    /\ maintenance = [enabled |-> FALSE] /\ password_reset_tokens = {}
    /\ profile_pictures = {} /\ retention_policies = {} /\ inflight = <<>>
    /\ resp = NoResp

NextRegister ==
    \/ \E username \in RegisterUsernames, email \in RegisterEmails :
          CreateUser(username, email, "pw_new")
    \/ DeleteAccountImmediately(2, "pw_alice", "soft")

SpecRegister == InitRegister /\ [][NextRegister]_vars

\* C12: a registration whose email is in use is answered 400 "already
\* registered", one whose username is in use (its email being free, the
\* email is looked at first) 400 "already taken", and neither creates a
\* row; so no two user rows ever share an email or a username.
C12_RegistrationUnique ==
    [][/\ resp'.op = "create_user" =>
            LET email_used == \E u \in DOMAIN users : users[u].email = resp'.email
                name_used == \E u \in DOMAIN users :
                                 users[u].username = resp'.username
            IN  /\ email_used =>
                      /\ resp'.status = 400
                      /\ resp'.detail = "Email already registered"
                      /\ users' = users
                /\ name_used =>
                      /\ resp'.status = 400
                      /\ ~email_used => resp'.detail = "Username already taken"
                      /\ users' = users
       /\ \A u, v \in DOMAIN users' :
             u # v => /\ users'[u].username # users'[v].username
                      /\ users'[u].email # users'[v].email]_vars

\* C12 happens: somebody registered in this run, and a second registration
\* under that username with another, unused email has just been refused.
C12_Witness ==
    /\ resp.op = "create_user" /\ resp.status = 400
    /\ resp.detail = "Username already taken"
    /\ \E u \in DOMAIN users :
          /\ u >= SeedIds.user
          /\ users[u].username = resp.username
          /\ users[u].email # resp.email

(***************************************************************************)
(* Password reset (app/routers/users.py, PASSWORD RESET TOKEN CRUD).  A    *)
(* row is [token, user_id, expires_at, is_valid]; the token is the fresh   *)
(* value of secrets.token_urlsafe, here the next value of a counter.       *)
(***************************************************************************)
MaxResetTokenId == 2   \* password_reset_tokens rows ever inserted
ResetTTL == 1          \* the hour a reset token lives, in ticks

GenericResetMessage ==
    "If an account with that email exists, we've sent password reset instructions."

\* crud.create_password_reset_token
create_password_reset_token(prt, user_id, token, expires_at) ==
    prt \cup {[token |-> token, user_id |-> user_id, expires_at |-> expires_at,
               is_valid |-> TRUE]}

\* crud.get_password_reset_token
get_password_reset_token(token) ==
    {r \in password_reset_tokens : r.token = token}

\* An invalidation that leaves every token as it is.
invalidate_all_user_reset_tokens_none(prt, user_id) == prt

\* crud.invalidate_all_user_reset_tokens
invalidate_all_user_reset_tokens(prt, user_id) ==
    {IF r.user_id = user_id /\ r.is_valid THEN [r EXCEPT !.is_valid = FALSE] ELSE r
        : r \in prt}

\* The status and body of POST /users/forgot-password for this email;
\* email_sent is what send_password_reset_email returns when it is called
\* (FALSE when SMTP is not configured, the default, or the relay fails).
forgot_password_answer(email, email_sent) ==
    IF get_user_by_email(email) # {} /\ ~email_sent
    THEN [status |-> 500,
          detail |-> "Failed to send password reset email. Please try again later."]
    ELSE [status |-> 200, detail |-> GenericResetMessage]

\* POST /users/forgot-password
ForgotPassword(email, email_sent) ==
    LET found == get_user_by_email(email)
        a == forgot_password_answer(email, email_sent)
    IN  /\ resp' = [op |-> "forgot_password", status |-> a.status,
                    detail |-> a.detail, email |-> email,
                    email_sent |-> email_sent]
        /\ IF found = {}
           THEN UNCHANGED <<password_reset_tokens, audit_logs, next_id>>
           ELSE LET u == CHOOSE v \in found : TRUE
                IN  /\ AuditRoom
                    /\ next_id.reset_token <= MaxResetTokenId
                    /\ password_reset_tokens' = create_password_reset_token(
                           password_reset_tokens, u, next_id.reset_token,
                           now + ResetTTL)
                    /\ next_id' = [next_id EXCEPT !.reset_token = @ + 1]
                    /\ audit_logs' = create_audit_log(
                           audit_logs, "password_reset.requested", Some(u),
                           email_sent)
        /\ UNCHANGED <<users, audio_files, collections, collection_tracks,
                       collaborators, revoked_tokens, deletion_requests,
                       announcements, tokens, now, config, profile_pictures,
                       retention_policies, inflight, maintenance>>

\* The check both reset endpoints make of a presented token: 0 when it
\* may be used, else the status of the refusal.
reset_token_refusal(token) ==
    LET found == get_password_reset_token(token)
    IN  IF found = {} THEN 400
        ELSE LET r == CHOOSE x \in found : TRUE
             IN  IF ~r.is_valid THEN 400
                 ELSE IF r.expires_at < now THEN 400
                 ELSE 0

\* POST /users/verify-reset-token
VerifyResetToken(token) ==
    /\ resp' = [op |-> "verify_reset_token", token |-> token,
                status |-> IF reset_token_refusal(token) = 0 THEN 200
                           ELSE reset_token_refusal(token)]
    /\ ReadOnly

\* POST /users/reset-password
ResetPassword(token, new_password) ==
    LET found == get_password_reset_token(token)
        refusal == reset_token_refusal(token)
    IN  /\ IF refusal # 0
           THEN /\ AuditRoom
                /\ audit_logs' = create_audit_log(
                       audit_logs, "password_reset.failed",
                       IF found = {} THEN Null
                       ELSE Some((CHOOSE x \in found : TRUE).user_id), FALSE)
                /\ resp' = [op |-> "reset_password", token |-> token,
                            status |-> refusal]
                /\ UNCHANGED <<users, password_reset_tokens>>
           ELSE LET r == CHOOSE x \in found : TRUE
                IN  IF r.user_id \notin DOMAIN users
                    THEN /\ resp' = [op |-> "reset_password", token |-> token,
                                     status |-> 404]
                         /\ UNCHANGED <<users, password_reset_tokens,
                                        audit_logs>>
                    ELSE /\ AuditRoom
                         /\ users' = [users EXCEPT
                                ![r.user_id].hashed_password = new_password]
                         /\ password_reset_tokens' =
                                invalidate_all_user_reset_tokens(
                                    password_reset_tokens, r.user_id)
                         /\ audit_logs' = create_audit_log(
                                audit_logs, "password_reset.success",
                                Some(r.user_id), TRUE)
                         /\ resp' = [op |-> "reset_password", token |-> token,
                                     status |-> 200]
        /\ UNCHANGED <<audio_files, collections, collection_tracks,
                       collaborators, revoked_tokens, deletion_requests,
                       announcements, tokens, next_id, now, config,
                       profile_pictures, retention_policies, inflight,
                       maintenance>>

\* crud.cleanup_expired_reset_tokens (the weekly cleanup)
CleanupExpiredResetTokens ==
    /\ password_reset_tokens' =
           {r \in password_reset_tokens : ~(r.expires_at < now)}
    /\ resp' = [op |-> "cleanup_expired_reset_tokens", status |-> 0]
    /\ UNCHANGED <<users, audio_files, collections, collection_tracks,
                   collaborators, revoked_tokens, audit_logs,
                   deletion_requests, announcements, tokens, next_id, now,
                   config, profile_pictures, retention_policies, inflight,
                   maintenance>>

(***************************************************************************)
(* Specification of the password resets: resets are asked for known and    *)
(* unknown emails while the mail relay works or fails, tokens are          *)
(* verified and used, the clock runs and expired tokens are purged.        *)
(***************************************************************************)
UnregisteredEmail == "nobody@example.com"

ResetEmails == {"alice@example.com", "bob@example.com", UnregisteredEmail}

NewPasswords == {"pw_new", "pw_newer"}

InitReset ==
    /\ users = SeedUsers /\ audio_files = SeedAudio
    /\ collections = SeedCollections /\ collaborators = SeedCollaborators
    /\ collection_tracks = {}
    /\ revoked_tokens = {} /\ audit_logs = <<>> /\ deletion_requests = {}
    /\ announcements = <<>> /\ tokens = {}
    /\ next_id = SeedIds /\ now = 0 /\ config = SeedConfig
    /\ maintenance = [enabled |-> FALSE] /\ password_reset_tokens = {}
    /\ profile_pictures = {} /\ retention_policies = {} /\ inflight = <<>>
    /\ resp = NoResp

NextReset ==
    \/ \E email \in ResetEmails, email_sent \in BOOLEAN :
          ForgotPassword(email, email_sent)
    \/ \E token \in 1 .. MaxResetTokenId : VerifyResetToken(token)
    \/ \E token \in 1 .. MaxResetTokenId, new_password \in NewPasswords :
          ResetPassword(token, new_password)
    \/ CleanupExpiredResetTokens
    \/ Tick

SpecReset == InitReset /\ [][NextReset]_vars

\* C13: the status and body of POST /users/forgot-password are those an
\* otherwise equal request with an email of no account gets (200 and the
\* generic message), so the answer does not tell whether the account exists.
C13_ForgotPasswordUniform ==
    [][resp'.op = "forgot_password" =>
          [status |-> resp'.status, detail |-> resp'.detail]
              = forgot_password_answer(UnregisteredEmail, resp'.email_sent)]_vars

\* C14: a successful reset-password with a token of user u changes the
\* password and leaves every reset token issued to u so far invalid; an
\* invalid token never becomes valid again and its value is never issued
\* again; verify-reset-token and reset-password answer a token that is
\* invalid or gone with 400 and change no password; and
\* verify-reset-token changes no token.  So no token resets twice.
C14_ResetTokenSingleUse ==
    [][/\ (resp'.op = "reset_password" /\ resp'.status = 200) =>
            \E r \in password_reset_tokens :
               /\ r.token = resp'.token /\ r.is_valid
               /\ users'[r.user_id].hashed_password \in NewPasswords
               /\ \A x \in password_reset_tokens' :
                     x.user_id = r.user_id => ~x.is_valid
               /\ \A x \in password_reset_tokens :
                     x.user_id = r.user_id =>
                        [x EXCEPT !.is_valid = FALSE] \in password_reset_tokens'
       /\ \A r \in password_reset_tokens :
             /\ r.token < next_id.reset_token
             /\ ~r.is_valid =>
                   \A x \in password_reset_tokens' : x.token = r.token => ~x.is_valid
       /\ \A x \in password_reset_tokens' \ password_reset_tokens :
             x.is_valid => x.token >= next_id.reset_token
       /\ (/\ resp'.op \in {"verify_reset_token", "reset_password"}
           /\ \A r \in password_reset_tokens : r.token = resp'.token => ~r.is_valid)
             => resp'.status = 400 /\ users' = users
       /\ resp'.op = "verify_reset_token" =>
             password_reset_tokens' = password_reset_tokens]_vars

\* C14 happens: a user holding two reset tokens has reset the password with
\* one of them, and the other has just been refused by verify-reset-token.
C14_Witness ==
    /\ resp.op = "verify_reset_token" /\ resp.status = 400
    /\ \E r, x \in password_reset_tokens :
          /\ r.token = resp.token /\ ~r.is_valid /\ ~(r.expires_at < now)
          /\ x.user_id = r.user_id /\ x.token # r.token /\ ~x.is_valid
          /\ users[r.user_id].hashed_password \in NewPasswords

(***************************************************************************)
(* Processing of the deletion requests (app/tasks/data_retention.py).      *)
(***************************************************************************)
\* A query that returns every pending request, due or not.
get_pending_deletions_all == {d \in deletion_requests : d.status = "pending"}

\* crud.get_pending_deletions: the pending requests whose time has come
get_pending_deletions ==
    {d \in deletion_requests :
        d.status = "pending" /\ d.scheduled_deletion_at <= now}

\* crud.complete_deletion_request
complete_deletion_request(reqs, request_id) ==
    {IF d.id = request_id THEN [d EXCEPT !.status = "completed"] ELSE d : d \in reqs}

\* The orders in which a query without ORDER BY can return the rows S.
RowOrders(S) ==
    {q \in [1 .. Cardinality(S) -> S] : \A i, j \in DOMAIN q : q[i] = q[j] => i = j}

\* The loop of process_pending_deletions over the rows `pending`, on the
\* tables st.db and the requests st.requests.  An exception of a deletion
\* (ok = FALSE) leaves the loop: the audit row written before it stays,
\* the request stays pending, the later requests are not looked at.
RECURSIVE process_pending_deletions(_, _)
process_pending_deletions(st, pending) ==
    IF pending = <<>> THEN st
    ELSE LET d == pending[1]
             rest == [i \in 1 .. Len(pending) - 1 |-> pending[i + 1]]
         IN  IF d.user_id \notin DOMAIN st.db.users
             THEN process_pending_deletions(
                      [st EXCEPT !.requests = complete_deletion_request(@, d.id)],
                      rest)
             ELSE LET logged == [st.db EXCEPT !.audit_logs = create_audit_log(@,
                                    IF d.deletion_type = "soft"
                                    THEN "user.soft_delete_automated"
                                    ELSE "user.hard_delete_automated",
                                    Some(d.user_id), TRUE)]
                      r == IF d.deletion_type = "soft"
                           THEN soft_delete_user(logged, d.user_id)
                           ELSE hard_delete_user(logged, d.user_id)
                  IN  IF ~r.ok
                      THEN [db |-> logged, requests |-> st.requests, ok |-> FALSE]
                      ELSE process_pending_deletions(
                               [db |-> r.db,
                                requests |-> complete_deletion_request(
                                                 st.requests, d.id),
                                ok |-> TRUE],
                               rest)

\* One run of the job (daily, or POST /admin/process-pending-deletions).
ProcessPendingDeletions ==
    /\ Len(audit_logs) + Cardinality(get_pending_deletions) <= MaxAudit
    /\ \E pending \in RowOrders(get_pending_deletions) :
          LET r == process_pending_deletions(
                       [db |-> DeletionTables, requests |-> deletion_requests,
                        ok |-> TRUE], pending)
          IN  /\ users' = r.db.users
              /\ audio_files' = r.db.audio_files
              /\ collections' = r.db.collections
              /\ collection_tracks' = r.db.collection_tracks
              /\ collaborators' = r.db.collaborators
              /\ audit_logs' = r.db.audit_logs
              /\ deletion_requests' = r.requests
              /\ resp' = [op |-> "process_pending_deletions",
                          status |-> IF r.ok THEN 0 ELSE 500]
    /\ UNCHANGED <<revoked_tokens, announcements, tokens, next_id, now, config,
                   profile_pictures, retention_policies, inflight, maintenance,
                   password_reset_tokens>>

(***************************************************************************)
(* Specification of the scheduled deletions: users ask for their deletion  *)
(* and withdraw, the job runs, the clock runs, and somebody registers      *)
(* under a name of the anonymized form.                                    *)
(***************************************************************************)
InitDeletion ==
    /\ users = SeedUsers /\ audio_files = SeedAudio
    /\ collections = SeedCollections /\ collaborators = SeedCollaborators
    /\ collection_tracks = {}
    /\ revoked_tokens = {} /\ audit_logs = <<>> /\ deletion_requests = {}
    /\ announcements = <<>> /\ tokens = {}
    /\ next_id = SeedIds /\ now = 0 /\ config = SeedConfig
    /\ maintenance = [enabled |-> FALSE] /\ password_reset_tokens = {}
    /\ profile_pictures = {} /\ retention_policies = {} /\ inflight = <<>>
    /\ resp = NoResp

NextDeletion ==
    \/ \E u \in {2, 3}, deletion_type \in {"soft", "hard"} :
          RequestAccountDeletion(u, deletion_type)
    \/ \E u \in {2, 3} : CancelAccountDeletion(u)
    \/ ProcessPendingDeletions
    \/ CreateUser("deleted_user_2", "dora@example.com", "pw_new")
    \/ Tick

SpecDeletion == InitDeletion /\ [][NextDeletion]_vars

PendingOf(reqs, uid) == {d \in reqs : d.user_id = uid /\ d.status = "pending"}

\* C15: after every request-deletion, cancel-deletion and processing run
\* each user has at most one pending deletion request, and a
\* request-deletion made while one is pending is answered 400 and creates
\* no row.
C15_OnePendingRequest ==
    [][/\ \A u \in DOMAIN users :
             Cardinality(PendingOf(deletion_requests', u)) <= 1
       /\ \A u \in DOMAIN users :
             (/\ resp'.op = "request_deletion" /\ resp'.user = u
              /\ PendingOf(deletion_requests, u) # {})
                => resp'.status = 400 /\ deletion_requests' = deletion_requests]_vars

\* C15 happens: a user with a pending request has asked again and was
\* refused.
C15_Witness ==
    /\ resp.op = "request_deletion" /\ resp.status = 400
    /\ Cardinality(PendingOf(deletion_requests, resp.user)) = 1

\* The row of user uid reads as soft_delete_user leaves it.
SoftDeleted(us, uid) ==
    /\ uid \in DOMAIN us
    /\ ~us[uid].is_active
    /\ us[uid].username = "deleted_user_" \o ToString(uid)

\* C16: after a run of process_pending_deletions no request that was
\* pending and due at its start is still pending: its user was already
\* gone or has been soft- or hard-deleted as the request says, and the
\* request is completed.
C16_DueRequestsProcessed ==
    [][resp'.op = "process_pending_deletions" =>
          \A d \in deletion_requests :
             (d.status = "pending" /\ d.scheduled_deletion_at <= now) =>
                /\ [d EXCEPT !.status = "completed"] \in deletion_requests'
                /\ \/ d.user_id \notin DOMAIN users
                   \/ d.deletion_type = "soft" /\ SoftDeleted(users', d.user_id)
                   \/ d.deletion_type = "hard" /\ d.user_id \notin DOMAIN users']_vars

\* C17: a request is scheduled one grace period after it is made, and a
\* run of the job deletes or anonymizes a user only for a request of that
\* user that is pending and due at that moment; a request cancelled in
\* the grace period, or not yet due, causes no deletion.
C17_OnlyDuePendingDeleted ==
    [][/\ resp'.op = "request_deletion" =>
             \A d \in deletion_requests' \ deletion_requests :
                d.status = "pending" /\ d.scheduled_deletion_at = now + DeletionGrace
       /\ resp'.op = "process_pending_deletions" =>
             \A u \in DOMAIN users :
                (u \notin DOMAIN users' \/ users'[u] # users[u]) =>
                   \E d \in deletion_requests :
                      /\ d.user_id = u
                      /\ d.status = "pending"
                      /\ d.scheduled_deletion_at <= now
                      /\ d.scheduled_deletion_at >= DeletionGrace]_vars

\* C17 happens: a run of the job has just anonymized a user whose request
\* was due, while a request made later and not yet due is still pending
\* and its user untouched.
C17_Witness ==
    /\ resp.op = "process_pending_deletions"
    /\ \E d \in deletion_requests :
          d.status = "completed" /\ SoftDeleted(users, d.user_id)
    /\ \E d \in deletion_requests :
          /\ d.status = "pending" /\ d.scheduled_deletion_at > now
          /\ users[d.user_id] = SeedUsers[d.user_id]

(***************************************************************************)
(* Specification of collection editing: every active user tries to change  *)
(* a collection's collaborative flag and to add, remove and reorder its    *)
(* tracks, while the owner of collection 1 adds and removes bob as a       *)
(* collaborator with either level.                                         *)
(***************************************************************************)
\* The track ids the requests name: the last id that can be given out
\* (the earlier ones belong to tracks added and removed before) and the
\* one before it, which no track has.
EditTrackIds == {MaxTrackId - 1, MaxTrackId}

\* One edit request of caller u on collection cid: a step of one of the
\* first five disjuncts of NextEdit.
EditStep(u, cid) ==
    \/ \E collab \in BOOLEAN :
          UpdateCollection(u, cid, collections[cid].is_public, collab)
    \/ \E f \in 1 .. 2 : AddTrack(u, cid, f, Null)
    \/ \E t \in EditTrackIds : RemoveTrack(u, cid, t)
    \/ \E t \in EditTrackIds, o \in 1 .. 2 : ReorderTrack(u, cid, t, o)
    \/ \E t \in EditTrackIds :
          BulkReorderTracks(u, cid, <<[track_id |-> t, new_order |-> 1]>>)

InitEdit ==
    /\ users = SeedUsers /\ audio_files = SeedAudio
    /\ collections = SeedCollections /\ collaborators = SeedCollaborators
    /\ collection_tracks = {}
    /\ revoked_tokens = {} /\ audit_logs = <<>> /\ deletion_requests = {}
    /\ announcements = <<>> /\ tokens = {}
    /\ next_id = [SeedIds EXCEPT !.track = MaxTrackId] /\ now = 0 /\ config = SeedConfig
    /\ maintenance = [enabled |-> FALSE] /\ password_reset_tokens = {}
    /\ profile_pictures = {} /\ retention_policies = {} /\ inflight = <<>>
    /\ resp = NoResp

NextEdit ==
    \/ \E u \in ActiveUsers, cid \in DOMAIN collections, collab \in BOOLEAN :
          UpdateCollection(u, cid, collections[cid].is_public, collab)
    \/ \E u \in ActiveUsers, cid \in DOMAIN collections, f \in 1 .. 2 :
          AddTrack(u, cid, f, Null)
    \/ \E u \in ActiveUsers, cid \in DOMAIN collections, t \in EditTrackIds :
          RemoveTrack(u, cid, t)
    \/ \E u \in ActiveUsers, cid \in DOMAIN collections, t \in EditTrackIds,
          o \in 1 .. 2 : ReorderTrack(u, cid, t, o)
    \/ \E u \in ActiveUsers, cid \in DOMAIN collections, t \in EditTrackIds :
          BulkReorderTracks(u, cid, <<[track_id |-> t, new_order |-> 1]>>)
    \/ \E lvl \in {"view", "edit"} : AddCollectionCollaborator(2, 1, 3, lvl)
    \/ RemoveCollectionCollaborator(2, 1, 3)

SpecEdit == InitEdit /\ [][NextEdit]_vars

\* The callers the contract lets edit collection cid.
MayEdit(u, cid) ==
    \/ collections[cid].owner_id = u
    \/ users[u].is_superuser
    \/ /\ collections[cid].is_collaborative
       /\ \E c \in collaborators :
             c.collection_id = cid /\ c.user_id = u /\ c.permission_level = "edit"

\* C18: a collection update or a track add, remove or reorder by a caller
\* who is not the owner, not a superuser and not an `edit` collaborator of
\* a collaborative collection is answered 403 and leaves the collection
\* and its tracks unchanged (no step with another answer, or with a
\* change, is a step of such a caller); a caller who is one of these is
\* never answered 403 by these operations, except by add-track for an
\* audio file that is neither the caller's nor public.
C18_EditPermission ==
    [][\A u \in ActiveUsers, cid \in DOMAIN collections :
          (IF MayEdit(u, cid)
           THEN resp'.status = 403 /\ resp'.op # "add_track"
           ELSE \/ resp'.status # 403
                \/ collections' # collections
                \/ collection_tracks' # collection_tracks)
             => ~EditStep(u, cid)]_vars

\* C18 happens: bob, who holds a `view` row on collection 1, or an `edit`
\* row while the collection is not collaborative, has just been refused
\* the update of collection 1.
C18_Witness ==
    /\ resp.op = "update_collection" /\ resp.status = 403
    /\ resp.user = 3 /\ resp.cid = 1
    /\ \E c \in collaborators :
          /\ c.collection_id = 1 /\ c.user_id = 3
          /\ c.permission_level = "view" \/ ~collections[1].is_collaborative
    /\ collection_tracks # {}

(***************************************************************************)
(* Specification of the account administration: two superusers (the        *)
(* second one, like the first, was given the flag in the database) disable *)
(* and enable every account, present or not.                               *)
(***************************************************************************)
InitAdmin ==
    /\ users = SeedUsers @@
                   (4 :> UserRow("root", "root@example.com", "pw_root", TRUE))
    /\ audio_files = SeedAudio
    /\ collections = SeedCollections /\ collaborators = SeedCollaborators
    /\ collection_tracks = {}
    /\ revoked_tokens = {} /\ audit_logs = <<>> /\ deletion_requests = {}
    /\ announcements = <<>> /\ tokens = {}
    /\ next_id = [SeedIds EXCEPT !.user = 5]
    /\ now = 0 /\ config = SeedConfig
    /\ maintenance = [enabled |-> FALSE] /\ password_reset_tokens = {}
    /\ profile_pictures = {} /\ retention_policies = {} /\ inflight = <<>>
    /\ resp = NoResp

NextAdmin ==
    \/ \E u \in {1, 4}, user_id \in 1 .. MaxUserId :
          DisableUser(u, user_id)
    \/ \E u \in {1, 4}, user_id \in 1 .. MaxUserId :
          EnableUser(u, user_id)

SpecAdmin == InitAdmin /\ [][NextAdmin]_vars

\* The audit rows appended by the step.
AppendedAudit == SubSeq(audit_logs', Len(audit_logs) + 1, Len(audit_logs'))

\* C19: no disable deactivates a superuser: a disable of the caller's own
\* account or of another superuser is answered 400 and changes nothing;
\* every successful disable or enable flips is_active of the target, and
\* of nobody else, and appends exactly one audit row, of that transition
\* and that caller; an unsuccessful one changes neither.
C19_DisableNeverHitsSuperuser ==
    [][resp'.op \in {"disable_user", "enable_user"} =>
          /\ \A t \in DOMAIN users :
                users[t].is_superuser => users'[t].is_active = users[t].is_active
          /\ (/\ resp'.op = "disable_user"
              /\ resp'.target \in DOMAIN users
              /\ resp'.target = resp'.user \/ users[resp'.target].is_superuser)
                => resp'.status = 400
          /\ resp'.status = 200 =>
                /\ users' = [users EXCEPT ![resp'.target].is_active = ~@]
                /\ users'[resp'.target].is_active = (resp'.op = "enable_user")
                /\ AppendedAudit =
                       <<[action |-> IF resp'.op = "disable_user"
                                     THEN "user.disabled" ELSE "user.enabled",
                          user_id |-> Some(resp'.user), success |-> TRUE,
                          details |-> "details"]>>
          /\ resp'.status # 200 => users' = users /\ audit_logs' = audit_logs]_vars

\* C19 happens: a superuser has just been refused the disabling of the
\* other superuser, after an account was disabled and enabled again.
C19_Witness ==
    /\ resp.op = "disable_user" /\ resp.status = 400
    /\ resp.target # resp.user
    /\ resp.target \in DOMAIN users /\ users[resp.target].is_superuser
    /\ users[resp.target].is_active
    /\ \E i, j \in DOMAIN audit_logs :
          /\ i < j
          /\ audit_logs[i].action = "user.disabled"
          /\ audit_logs[j].action = "user.enabled"

(***************************************************************************)
(* The administrator's audio-file deletions (app/routers/audio.py and      *)
(* app/routers/admin.py).  failing: the files whose object                 *)
(* minio_client.remove_object fails to remove.                             *)
(***************************************************************************)
\* crud.get_user_audio_files(db, user_id): the ids of the user's files
get_user_audio_files(user_id) ==
    {f \in DOMAIN audio_files : audio_files[f].owner_id = Some(user_id)}

\* DELETE /audio/admin/{file_id}, by the resolved superuser u
AdminDeleteAudioFile(u, file, removed) ==
    /\ u \in ActiveUsers /\ users[u].is_superuser
    /\ IF file \notin DOMAIN audio_files
       THEN resp' = DeleteResp("admin_delete_audio", 404, file, removed)
            /\ UNCHANGED <<audio_files, collection_tracks>>
       ELSE /\ collection_tracks' = delete_audio_file_tracks(collection_tracks, file)
            /\ audio_files' = [f \in DOMAIN audio_files \ {file} |-> audio_files[f]]
            /\ resp' = DeleteResp("admin_delete_audio", 200, file, removed)
    /\ UNCHANGED next_id
    /\ TrackVarsUnchanged

\* The rows a loop over the files `gone` deletes: crud.delete_audio_file
\* for each of them.
DeleteRows(gone) ==
    /\ audio_files' = [f \in DOMAIN audio_files \ gone |-> audio_files[f]]
    /\ collection_tracks' = {t \in collection_tracks : t.audio_file_id \notin gone}

\* DELETE /admin/users/{user_id}/audio-files, by the resolved superuser u:
\* a file whose object cannot be removed is counted as failed and skipped.
DeleteAllUserAudioFiles(u, user_id, failing) ==
    /\ u \in ActiveUsers /\ users[u].is_superuser
    /\ IF user_id \notin DOMAIN users
       THEN /\ resp' = [op |-> "delete_all_user_audio_files", status |-> 404,
                        target |-> user_id, failing |-> {}, deleted |-> 0,
                        failed |-> 0]
            /\ UNCHANGED <<audio_files, collection_tracks>>
       ELSE LET user_files == get_user_audio_files(user_id)
            IN  /\ DeleteRows(user_files \ failing)
                /\ resp' = [op |-> "delete_all_user_audio_files", status |-> 200,
                            target |-> user_id,
                            failing |-> user_files \cap failing,
                            deleted |-> Cardinality(user_files \ failing),
                            failed |-> Cardinality(user_files \cap failing)]
    /\ UNCHANGED next_id
    /\ TrackVarsUnchanged

\* POST /admin/users/{user_id}/reset-uploads, by the resolved superuser u:
\* every file of the user is deleted, the limit goes back to 20.
ResetUserUploads(u, user_id, failing) ==
    /\ u \in ActiveUsers /\ users[u].is_superuser
    /\ LET st == IF user_id \notin DOMAIN users THEN 404
                 ELSE IF users[user_id].is_superuser /\ user_id # u THEN 400
                 ELSE 200
           user_files == get_user_audio_files(user_id)
       IN  IF st # 200
           THEN /\ resp' = [op |-> "reset_user_uploads", status |-> st,
                            target |-> user_id, failing |-> {}, deleted |-> 0]
                /\ UNCHANGED <<users, audio_files, collection_tracks>>
           ELSE /\ DeleteRows(user_files)
                /\ users' = [users EXCEPT ![user_id].max_audio_uploads = 20]
                /\ resp' = [op |-> "reset_user_uploads", status |-> 200,
                            target |-> user_id,
                            failing |-> user_files \cap failing,
                            deleted |-> Cardinality(user_files)]
    /\ UNCHANGED <<collections, collaborators, revoked_tokens, audit_logs,
                   deletion_requests, announcements, tokens, next_id, now,
                   config, profile_pictures, retention_policies, inflight,
                   maintenance, password_reset_tokens>>

(***************************************************************************)
(* Specification of the audio-file deletions: alice and bob upload, put    *)
(* files into their collections and delete files; the superuser deletes    *)
(* single files, all files of a user, and resets a user's uploads, while   *)
(* the object storage fails for any of the files.                          *)
(***************************************************************************)
InitStorage ==
    /\ users = SeedUsers /\ audio_files = SeedAudio
    /\ collections = SeedCollections /\ collaborators = SeedCollaborators
    /\ collection_tracks = {}
    /\ revoked_tokens = {} /\ audit_logs = <<>> /\ deletion_requests = {}
    /\ announcements = <<>> /\ tokens = {}
    /\ next_id = SeedIds /\ now = 0 /\ config = SeedConfig
    /\ maintenance = [enabled |-> FALSE] /\ password_reset_tokens = {}
    /\ profile_pictures = {} /\ retention_policies = {} /\ inflight = <<>>
    /\ resp = NoResp

NextStorage ==
    \/ \E u \in {2, 3} : UploadAudioFile(u, TRUE, TRUE, TRUE, FALSE)
    \/ \E f \in DOMAIN audio_files : AddTrack(2, 1, f, Null)
    \/ \E u \in {2, 3}, f \in 1 .. MaxAudioId, removed \in BOOLEAN :
          DeleteAudioFile(u, f, removed)
    \/ \E f \in 1 .. MaxAudioId, removed \in BOOLEAN :
          AdminDeleteAudioFile(1, f, removed)
    \/ \E user_id \in 1 .. MaxUserId :
          \E failing \in SUBSET get_user_audio_files(user_id) :
             DeleteAllUserAudioFiles(1, user_id, failing)
    \/ \E user_id \in 1 .. MaxUserId :
          \E failing \in SUBSET get_user_audio_files(user_id) :
             ResetUserUploads(1, user_id, failing)

SpecStorage == InitStorage /\ [][NextStorage]_vars

\* C20: on each of the four deletion paths a file whose object could not
\* be removed from storage loses its row all the same: after a successful
\* owner or admin delete the file has no row, and after a successful bulk
\* delete or reset of a user's uploads none of the user's files has one,
\* the failing ones included.
C20_StorageFailureDoesNotBlock ==
    [][/\ (/\ resp'.op \in {"delete_audio", "admin_delete_audio"}
           /\ resp'.status = 200 /\ resp'.storage_failed)
             => resp'.file \notin DOMAIN audio_files'
       /\ (/\ resp'.op \in {"delete_all_user_audio_files", "reset_user_uploads"}
           /\ resp'.status = 200)
             => \A f \in resp'.failing : f \notin DOMAIN audio_files']_vars

(***************************************************************************)
(* The cleanup tasks (app/tasks/data_retention.py) as functions of the     *)
(* tables they work on, and the two callers that run them in a row: the    *)
(* weekly job and POST /admin/run-all-cleanup-tasks.                       *)
(***************************************************************************)
CleanupTables ==
    [users |-> users, audio_files |-> audio_files, collections |-> collections,
     collection_tracks |-> collection_tracks, collaborators |-> collaborators,
     audit_logs |-> audit_logs, revoked_tokens |-> revoked_tokens,
     deletion_requests |-> deletion_requests,
     password_reset_tokens |-> password_reset_tokens,
     profile_pictures |-> profile_pictures,
     retention_policies |-> retention_policies]

cleanup_expired_revoked_tokens(t) ==
    [t EXCEPT !.revoked_tokens = cleanup_expired_tokens(@)]

\* process_pending_deletions on the tables t, the due requests coming in
\* the order `pending`.  soft_delete_user and hard_delete_user remove the
\* user's profile picture from the bucket before they touch the row, so
\* the picture of every user whose deletion was started is gone, also
\* when the deletion then failed.
process_pending_deletions_task(t, pending) ==
    LET r == process_pending_deletions(
                 [db |-> [users |-> t.users, audio_files |-> t.audio_files,
                          collections |-> t.collections,
                          collection_tracks |-> t.collection_tracks,
                          collaborators |-> t.collaborators,
                          audit_logs |-> t.audit_logs],
                  requests |-> t.deletion_requests, ok |-> TRUE], pending)
        done == {i \in DOMAIN pending :
                    \E d \in r.requests :
                       d.id = pending[i].id /\ d.status = "completed"}
        started == {i \in DOMAIN pending : \A j \in 1 .. i - 1 : j \in done}
        gone == {t.users[pending[i].user_id].profile_picture_url :
                    i \in {j \in started : pending[j].user_id \in DOMAIN t.users}}
    IN  [t EXCEPT !.users = r.db.users, !.audio_files = r.db.audio_files,
                  !.collections = r.db.collections,
                  !.collection_tracks = r.db.collection_tracks,
                  !.collaborators = r.db.collaborators,
                  !.audit_logs = r.db.audit_logs,
                  !.deletion_requests = r.requests,
                  !.profile_pictures = @ \ gone]

\* cleanup_old_audit_logs(db, retention_days=3650): the rows older than
\* ten years go.  The clock of the model runs for MaxNow steps of the
\* length of a token lifetime, so no row it holds is that old.
cleanup_old_audit_logs(t) == [t EXCEPT !.audit_logs = SelectSeq(@, LAMBDA a : TRUE)]

\* cleanup_unused_profile_pictures run in one piece: the objects that no
\* user row names are removed.
cleanup_unused_profile_pictures(t) ==
    [t EXCEPT !.profile_pictures =
        {o \in @ : \E u \in DOMAIN t.users : t.users[u].profile_picture_url = o}]

DefaultRetentionPolicies ==
    {"audit_logs", "user_data", "audio_files", "revoked_tokens", "deletion_requests"}

initialize_default_retention_policies(t) ==
    [t EXCEPT !.retention_policies = @ \cup DefaultRetentionPolicies]

cleanup_expired_reset_tokens(t) ==
    [t EXCEPT !.password_reset_tokens = {r \in @ : ~(r.expires_at < now)}]

\* The names of the tasks in the order of the weekly job.
WeeklyTasks ==
    <<"cleanup_expired_revoked_tokens", "process_pending_deletions",
      "cleanup_old_audit_logs", "cleanup_unused_profile_pictures",
      "initialize_default_retention_policies", "cleanup_expired_reset_tokens">>

\* run_all_cleanup_tasks (the weekly job): the six tasks in a row.
run_all_cleanup_tasks(t, pending) ==
    cleanup_expired_reset_tokens(
      initialize_default_retention_policies(
        cleanup_unused_profile_pictures(
          cleanup_old_audit_logs(
            process_pending_deletions_task(
              cleanup_expired_revoked_tokens(t), pending)))))

\* The tasks run_all_cleanup_tasks_endpoint calls, in its order.
EndpointTasks ==
    <<"cleanup_expired_revoked_tokens", "process_pending_deletions",
      "cleanup_old_audit_logs", "cleanup_unused_profile_pictures",
      "initialize_default_retention_policies">>

\* run_all_cleanup_tasks_endpoint after its audit row: the four tasks of
\* the results dictionary, then the retention policies.
run_all_cleanup_tasks_endpoint(t, pending) ==
    initialize_default_retention_policies(
      cleanup_unused_profile_pictures(
        cleanup_old_audit_logs(
          process_pending_deletions_task(
            cleanup_expired_revoked_tokens(t), pending))))

\* The tables become t.
SetCleanupTables(t) ==
    /\ users' = t.users /\ audio_files' = t.audio_files
    /\ collections' = t.collections
    /\ collection_tracks' = t.collection_tracks
    /\ collaborators' = t.collaborators /\ audit_logs' = t.audit_logs
    /\ revoked_tokens' = t.revoked_tokens
    /\ deletion_requests' = t.deletion_requests
    /\ password_reset_tokens' = t.password_reset_tokens
    /\ profile_pictures' = t.profile_pictures
    /\ retention_policies' = t.retention_policies

\* The weekly job (scheduler.run_cleanup_job, Mondays 03:00 UTC).
RunAllCleanupTasks ==
    /\ Len(audit_logs) + Cardinality(get_pending_deletions) <= MaxAudit
    /\ \E pending \in RowOrders(get_pending_deletions) :
          SetCleanupTables(run_all_cleanup_tasks(CleanupTables, pending))
    /\ resp' = [op |-> "run_all_cleanup_tasks", status |-> 0,
                tasks |-> WeeklyTasks]
    /\ UNCHANGED <<announcements, tokens, next_id, now, config, inflight,
                   maintenance>>

\* POST /admin/run-all-cleanup-tasks, by the resolved superuser u.
RunAllCleanupTasksEndpoint(u) ==
    /\ u \in ActiveUsers /\ users[u].is_superuser
    /\ Len(audit_logs) + 1 + Cardinality(get_pending_deletions) <= MaxAudit
    /\ \E pending \in RowOrders(get_pending_deletions) :
          SetCleanupTables(run_all_cleanup_tasks_endpoint(
              [CleanupTables EXCEPT !.audit_logs = create_audit_log(
                   @, "admin.run_all_cleanup_tasks", Some(u), TRUE)],
              pending))
    /\ resp' = [op |-> "run_all_cleanup_tasks_endpoint", status |-> 200,
                user |-> u, tasks |-> EndpointTasks]
    /\ UNCHANGED <<announcements, tokens, next_id, now, config, inflight,
                   maintenance>>

(***************************************************************************)
(* Specification of the cleanups: alice, who has a profile picture, logs   *)
(* in and out and asks for a password reset, bob asks for his deletion,    *)
(* the clock runs, and the weekly job and the admin endpoint run.  The     *)
(* bucket also holds a picture that alice replaced.                        *)
(***************************************************************************)
InitCleanup ==
    /\ users = [SeedUsers EXCEPT ![2].profile_picture_url = "alice.png"]
    /\ audio_files = SeedAudio
    /\ collections = SeedCollections /\ collaborators = SeedCollaborators
    /\ collection_tracks = {}
    /\ revoked_tokens = {} /\ audit_logs = <<>> /\ deletion_requests = {}
    /\ announcements = <<>> /\ tokens = {}
    /\ next_id = SeedIds /\ now = 0 /\ config = SeedConfig
    /\ maintenance = [enabled |-> FALSE] /\ password_reset_tokens = {}
    /\ profile_pictures = {"alice.png", "alice_old.png"}
    /\ retention_policies = {} /\ inflight = <<>>
    /\ resp = NoResp

NextCleanup ==
    \/ Login("alice", "pw_alice")
    \/ \E a \in tokens, r \in tokens : Logout(Some(a), r)
    \/ ForgotPassword("alice@example.com", TRUE)
    \/ \E deletion_type \in {"soft", "hard"} :
          RequestAccountDeletion(3, deletion_type)
    \/ Tick
    \/ RunAllCleanupTasks
    \/ RunAllCleanupTasksEndpoint(1)

SpecCleanup == InitCleanup /\ [][NextCleanup]_vars

\* C21: the admin endpoint runs the tasks of the weekly job in the same
\* order: after its audit row it leaves the tables as the weekly job
\* would leave them.
C21_EndpointRunsWeeklyTasks ==
    [][resp'.op = "run_all_cleanup_tasks_endpoint" =>
          \E pending \in RowOrders(get_pending_deletions) :
                SetCleanupTables(run_all_cleanup_tasks(
                    [CleanupTables EXCEPT !.audit_logs = create_audit_log(
                         @, "admin.run_all_cleanup_tasks",
                         Some(resp'.user), TRUE)],
                    pending))]_vars

(***************************************************************************)
(* The audit trail of the administrator's actions (app/routers/admin.py).  *)
(* security.audit_log prints a line and writes no row; only                *)
(* crud.create_audit_log adds to the table audit_logs.                     *)
(***************************************************************************)
\* DELETE /admin/users/{user_id}/collections/all, by the resolved
\* superuser u: each collection of the user is deleted, with its tracks
\* and collaborators (cascade).
DeleteAllUserCollections(u, user_id) ==
    /\ u \in ActiveUsers /\ users[u].is_superuser
    /\ IF user_id \notin DOMAIN users
       THEN /\ resp' = [op |-> "delete_all_user_collections", status |-> 404,
                        target |-> user_id, deleted |-> 0]
            /\ UNCHANGED <<collections, collection_tracks, collaborators>>
       ELSE LET gone == {c \in DOMAIN collections :
                            collections[c].owner_id = user_id}
            IN  /\ collections' = [c \in DOMAIN collections \ gone |->
                                      collections[c]]
                /\ collection_tracks' =
                       {t \in collection_tracks : t.collection_id \notin gone}
                /\ collaborators' =
                       {c \in collaborators : c.collection_id \notin gone}
                /\ resp' = [op |-> "delete_all_user_collections",
                            status |-> 200, target |-> user_id,
                            deleted |-> Cardinality(gone)]
    /\ UNCHANGED <<users, audio_files, revoked_tokens, audit_logs,
                   deletion_requests, announcements, tokens, next_id, now,
                   config, profile_pictures, retention_policies, inflight,
                   maintenance, password_reset_tokens>>

(***************************************************************************)
(* Specification of the administration: the superuser changes upload       *)
(* limits, deletes the collections and the audio files of users, resets    *)
(* their uploads, and disables and enables them.                           *)
(***************************************************************************)
InitAudit ==
    /\ users = SeedUsers /\ audio_files = SeedAudio
    /\ collections = SeedCollections /\ collaborators = SeedCollaborators
    /\ collection_tracks = {}
    /\ revoked_tokens = {} /\ audit_logs = <<>> /\ deletion_requests = {}
    /\ announcements = <<>> /\ tokens = {}
    /\ next_id = SeedIds /\ now = 0 /\ config = SeedConfig
    /\ maintenance = [enabled |-> FALSE] /\ password_reset_tokens = {}
    /\ profile_pictures = {} /\ retention_policies = {} /\ inflight = <<>>
    /\ resp = NoResp

NextAudit ==
    \/ \E user_id \in {2, MaxUserId} : UpdateUserUploadLimit(1, user_id, MaxLimit)
    \/ \E user_id \in 1 .. MaxUserId : DeleteAllUserCollections(1, user_id)
    \/ \E user_id \in 1 .. MaxUserId : DeleteAllUserAudioFiles(1, user_id, {})
    \/ \E user_id \in 1 .. MaxUserId : ResetUserUploads(1, user_id, {})
    \/ \E user_id \in 1 .. MaxUserId : DisableUser(1, user_id)
    \/ \E user_id \in 1 .. MaxUserId : EnableUser(1, user_id)

SpecAudit == InitAudit /\ [][NextAudit]_vars

AdminMutations ==
    {"update_upload_limit", "delete_all_user_collections",
     "delete_all_user_audio_files", "reset_user_uploads", "disable_user",
     "enable_user"}

\* C22: every successful mutating admin action (upload-limit update, bulk
\* delete of a user's collections or audio files, reset uploads, disable,
\* enable) appends at least one row to the table audit_logs.
C22_AdminActionsAudited ==
    [][(resp'.op \in AdminMutations /\ resp'.status = 200) =>
          Len(audit_logs') > Len(audit_logs)]_vars

(***************************************************************************)
(* crud.reorder_collection_track as a function, and what its session       *)
(* flushes on the way.                                                     *)
(***************************************************************************)
MaxTracks == 3

\* The tables after each of the shifts of `pending`, one flush per row.
RECURSIVE ShiftFlushes(_, _, _)
ShiftFlushes(tr, pending, delta) ==
    IF pending = <<>> THEN <<>>
    ELSE LET cur == CHOOSE x \in tr : x.id = pending[1].id
             moved == (tr \ {cur}) \cup {[cur EXCEPT !.track_order = @ + delta]}
         IN  <<moved>> \o
             ShiftFlushes(moved, [i \in 1 .. Len(pending) - 1 |-> pending[i + 1]],
                          delta)

\* What reorder_collection_track sends to the database, flush by flush:
\* the table with the moving track at -1, the table after each single
\* shift, and the table with the track at new_order (flushed by the
\* commit).  No flush is made when the track is missing or stays.
reorder_flushes(tr, cid, track_id, new_order) ==
    LET found == {t \in TracksOf(tr, cid) : t.id = track_id}
    IN  IF found = {} THEN <<>>
        ELSE
        LET track == CHOOSE t \in found : TRUE
            old_order == track.track_order
            parked == (tr \ {track}) \cup {[track EXCEPT !.track_order = -1]}
            toShift ==
                IF new_order > old_order
                THEN SortByOrder({t \in TracksOf(tr, cid) \ {track} :
                         t.track_order > old_order /\ t.track_order <= new_order},
                         TRUE)
                ELSE SortByOrder({t \in TracksOf(tr, cid) \ {track} :
                         t.track_order >= new_order /\ t.track_order < old_order},
                         FALSE)
            shifts == ShiftFlushes(parked, toShift,
                                   IF new_order > old_order THEN -1 ELSE 1)
            last == IF shifts = <<>> THEN parked ELSE shifts[Len(shifts)]
            me == CHOOSE x \in last : x.id = track_id
        IN  IF new_order = old_order THEN <<>>
            ELSE <<parked>> \o shifts \o
                 <<(last \ {me}) \cup {[me EXCEPT !.track_order = new_order]}>>

\* One call of crud.reorder_collection_track(db, cid, track_id, new_order).
CallReorderCollectionTrack(cid, track_id, new_order) ==
    /\ LET r == reorder_collection_track(collection_tracks, cid, track_id,
                                         new_order)
       IN  /\ collection_tracks' = r.tracks
           /\ resp' = [op |-> "reorder_collection_track", status |-> 0,
                       cid |-> cid, track_id |-> track_id,
                       new_order |-> new_order, before |-> collection_tracks,
                       found |-> r.found, ok |-> r.ok,
                       flushes |-> reorder_flushes(collection_tracks, cid,
                                                   track_id, new_order)]
    /\ UNCHANGED <<users, audio_files, collections, collaborators,
                   revoked_tokens, audit_logs, deletion_requests,
                   announcements, tokens, next_id, now, config,
                   profile_pictures, retention_policies, inflight,
                   maintenance, password_reset_tokens>>

(***************************************************************************)
(* Specification of the reorder function.  Collection 1 starts with up to  *)
(* MaxTracks tracks in any orders the constraint allows: the add-track     *)
(* endpoint takes every integer as track_order, so a collection can hold   *)
(* tracks at -1, at 0, and with gaps.  Collection 2 holds one track.       *)
(***************************************************************************)
TrackRow(id, cid, order) ==
    [id |-> id, collection_id |-> cid, audio_file_id |-> 1, track_order |-> order]

UniqueOrderCollections ==
    UNION {{ {TrackRow(i, 1, f[i]) : i \in 1 .. n} :
               f \in {g \in [1 .. n -> -1 .. MaxTracks + 1] :
                         \A i, j \in 1 .. n : g[i] = g[j] => i = j} } :
           n \in 0 .. MaxTracks}

InitReorder ==
    /\ users = SeedUsers /\ audio_files = SeedAudio
    /\ collections = SeedCollections /\ collaborators = SeedCollaborators
    /\ \E tr \in UniqueOrderCollections :
          collection_tracks = tr \cup {TrackRow(MaxTracks + 1, 2, 1)}
    /\ revoked_tokens = {} /\ audit_logs = <<>> /\ deletion_requests = {}
    /\ announcements = <<>> /\ tokens = {}
    /\ next_id = [SeedIds EXCEPT !.track = MaxTracks + 2]
    /\ now = 0 /\ config = SeedConfig
    /\ maintenance = [enabled |-> FALSE] /\ password_reset_tokens = {}
    /\ profile_pictures = {} /\ retention_policies = {} /\ inflight = <<>>
    /\ resp = NoResp

NextReorder ==
    \E track_id \in 1 .. MaxTracks + 1, new_order \in 1 .. MaxTracks + 1 :
       CallReorderCollectionTrack(1, track_id, new_order)

SpecReorder == InitReorder /\ [][NextReorder]_vars

\* The row of track id in the table tr.
TrackById(tr, id) == CHOOSE t \in tr : t.id = id

\* C23: reorder_collection_track on a collection with the dense ordering
\* 1..n, moving a track from old to new with 1 <= new <= n: the call
\* succeeds, the moved track is at new, the other tracks keep their
\* relative order, every track whose position is outside the range
\* between old and new keeps it, the result is dense, other collections
\* are untouched; with new = old nothing changes.
C23_ReorderMovesOneTrack ==
    [][(/\ resp'.op = "reorder_collection_track"
        /\ resp'.found
        /\ DenseIn(collection_tracks, resp'.cid)
        /\ resp'.new_order <= Cardinality(TracksOf(collection_tracks, resp'.cid)))
          => LET cid == resp'.cid
                 old == TrackById(collection_tracks, resp'.track_id).track_order
                 new == resp'.new_order
                 others == {t.id : t \in TracksOf(collection_tracks, cid)}
                               \ {resp'.track_id}
                 before(i) == TrackById(collection_tracks, i).track_order
                 after(i) == TrackById(collection_tracks', i).track_order
             IN  /\ resp'.ok
                 /\ {t.id : t \in collection_tracks'} =
                        {t.id : t \in collection_tracks}
                 /\ after(resp'.track_id) = new
                 /\ \A i, j \in others : before(i) < before(j) <=> after(i) < after(j)
                 /\ \A i \in others :
                       (before(i) < (IF old < new THEN old ELSE new)
                           \/ before(i) > (IF old < new THEN new ELSE old))
                          => after(i) = before(i)
                 /\ DenseIn(collection_tracks', cid)
                 /\ collection_tracks' \ TracksOf(collection_tracks', cid) =
                        collection_tracks \ TracksOf(collection_tracks, cid)
                 /\ new = old => collection_tracks' = collection_tracks]_vars

\* C23 happens: in a dense collection of three tracks or more a track
\* has been moved across two others.
C23_Witness ==
    /\ resp.op = "reorder_collection_track" /\ resp.found /\ resp.ok
    /\ DenseIn(resp.before, resp.cid)
    /\ Cardinality(TracksOf(resp.before, resp.cid)) >= 3
    /\ LET old == TrackById(resp.before, resp.track_id).track_order
       IN  old - resp.new_order >= 2 \/ resp.new_order - old >= 2
    /\ TrackById(collection_tracks, resp.track_id).track_order = resp.new_order

\* C24: during one reorder_collection_track call on a collection whose
\* orders are unique, no flush (the parking of the moving track at -1,
\* each single shift, the final position) leaves two rows of one
\* collection with the same track_order.
C24_FlushesKeepOrdersUnique ==
    [][(/\ resp'.op = "reorder_collection_track"
        /\ uq_collection_track_order(collection_tracks))
          => \A i \in DOMAIN resp'.flushes :
                uq_collection_track_order(resp'.flushes[i])]_vars

(***************************************************************************)
(* Track operations of concurrent requests.  get_db gives every request    *)
(* a session of its own, and nothing in the code sets an isolation level   *)
(* or takes a lock, so each statement of a request reads what is committed *)
(* when the statement runs.  A request is split where its first SELECT     *)
(* ends: inflight[r] keeps what the SELECT returned, the second step runs  *)
(* the writes and the commit against the table as it is by then.  (The     *)
(* writes of one request are taken in one step; the order-dependent        *)
(* failure of a set-based shift is left out here.)                         *)
(***************************************************************************)
Requests == {1, 2}

InflightRow(op, cid, track_id, file, new_order, order) ==
    [op |-> op, cid |-> cid, track_id |-> track_id, file |-> file,
     new_order |-> new_order, order |-> order]

Finish(r) == [q \in DOMAIN inflight \ {r} |-> inflight[q]]

ConcurrentResp(op, status, r, row) ==
    [op |-> op, status |-> status, cid |-> row.cid,
     track_id |-> row.track_id, file |-> row.file,
     new_order |-> row.new_order]

ConcurrentUnchanged ==
    UNCHANGED <<users, audio_files, collections, collaborators,
                revoked_tokens, audit_logs, deletion_requests,
                announcements, tokens, now, config, profile_pictures,
                retention_policies, maintenance, password_reset_tokens>>

\* add_track_to_collection, track_order = None: SELECT max(track_order).
AddTrackRead(r, cid, file) ==
    /\ r \notin DOMAIN inflight
    /\ next_id.track + Cardinality({q \in DOMAIN inflight : inflight[q].op = "add"})
           <= MaxTracks + 1
    /\ LET mo == max_order(collection_tracks, cid)
           ord == (IF mo = Null \/ mo = Some(0) THEN 0 ELSE Val(mo)) + 1
       IN  inflight' = inflight @@ (r :> InflightRow("add", cid, 0, file, 0, ord))
    /\ UNCHANGED <<collection_tracks, next_id, resp>>
    /\ ConcurrentUnchanged

\* add_track_to_collection: db.add(db_track); db.commit().  The INSERT
\* fails on uq_collection_track_order when the order read before has been
\* taken since; the exception is not handled (500).
AddTrackInsert(r) ==
    /\ r \in DOMAIN inflight /\ inflight[r].op = "add"
    /\ LET row == inflight[r]
           new == [id |-> next_id.track, collection_id |-> row.cid,
                   audio_file_id |-> row.file, track_order |-> row.order]
           ok == uq_collection_track_order(collection_tracks \cup {new})
       IN  /\ collection_tracks' =
                 IF ok THEN collection_tracks \cup {new} ELSE collection_tracks
           /\ resp' = ConcurrentResp("add_track", IF ok THEN 200 ELSE 500, r,
                                     [row EXCEPT !.track_id = next_id.track])
    /\ next_id' = [next_id EXCEPT !.track = @ + 1]
    /\ inflight' = Finish(r)
    /\ ConcurrentUnchanged

\* remove_track_from_collection: the SELECT of the row; old_order is kept.
RemoveTrackRead(r, cid, track_id) ==
    /\ r \notin DOMAIN inflight
    /\ LET found == {t \in TracksOf(collection_tracks, cid) : t.id = track_id}
       IN  IF found = {}
           THEN /\ resp' = ConcurrentResp("remove_track", 404, r,
                               InflightRow("remove", cid, track_id, 0, 0, 0))
                /\ UNCHANGED inflight
           ELSE /\ inflight' = inflight @@
                       (r :> InflightRow("remove", cid, track_id, 0, 0,
                                 (CHOOSE t \in found : TRUE).track_order))
                /\ UNCHANGED resp
    /\ UNCHANGED <<collection_tracks, next_id>>
    /\ ConcurrentUnchanged

\* remove_track_from_collection: DELETE of the row, UPDATE of the rows
\* whose track_order > old_order, commit.  A DELETE that matches no row
\* (the row was removed since) raises in the flush (500), and so does a
\* shift onto an order that is held.
RemoveTrackDelete(r) ==
    /\ r \in DOMAIN inflight /\ inflight[r].op = "remove"
    /\ LET row == inflight[r]
           found == {t \in TracksOf(collection_tracks, row.cid) :
                        t.id = row.track_id}
           rest == collection_tracks \ found
           later == {t \in TracksOf(rest, row.cid) : t.track_order > row.order}
           after == ShiftRows(rest, later, -1)
           ok == /\ found # {}
                 /\ uq_collection_track_order(after)
                 /\ Cardinality(after) = Cardinality(rest)
       IN  /\ collection_tracks' = IF ok THEN after ELSE collection_tracks
           /\ resp' = ConcurrentResp("remove_track", IF ok THEN 200 ELSE 500,
                                     r, row)
    /\ inflight' = Finish(r)
    /\ UNCHANGED next_id
    /\ ConcurrentUnchanged

\* reorder_collection_track: the SELECT of the track; old_order is kept.
ReorderTrackRead(r, cid, track_id, new_order) ==
    /\ r \notin DOMAIN inflight
    /\ LET found == {t \in TracksOf(collection_tracks, cid) : t.id = track_id}
           old_order == (CHOOSE t \in found : TRUE).track_order
           row == InflightRow("reorder", cid, track_id, 0, new_order,
                              IF found = {} THEN 0 ELSE old_order)
       IN  IF found = {}
           THEN resp' = ConcurrentResp("reorder_track", 404, r, row)
                /\ UNCHANGED inflight
           ELSE IF new_order = old_order
           THEN resp' = ConcurrentResp("reorder_track", 200, r, row)
                /\ UNCHANGED inflight
           ELSE inflight' = inflight @@ (r :> row) /\ UNCHANGED resp
    /\ UNCHANGED <<collection_tracks, next_id>>
    /\ ConcurrentUnchanged

\* reorder_collection_track from `track.track_order = -1` on, with the
\* old_order read before: parking, the shifts of the rows between
\* old_order and new_order as they are now, the final position, commit.
reorder_writes(tr, cid, track_id, old_order, new_order) ==
    LET found == {t \in TracksOf(tr, cid) : t.id = track_id}
    IN  IF found = {} THEN [ok |-> FALSE, tracks |-> tr]
        ELSE
        LET track == CHOOSE t \in found : TRUE
            parked == (tr \ {track}) \cup {[track EXCEPT !.track_order = -1]}
            toShift ==
                IF new_order > old_order
                THEN SortByOrder({t \in TracksOf(parked, cid) :
                         t.track_order > old_order /\ t.track_order <= new_order}, TRUE)
                ELSE SortByOrder({t \in TracksOf(parked, cid) :
                         t.track_order >= new_order /\ t.track_order < old_order}, FALSE)
            shifted == ShiftOneByOne(parked, toShift,
                                     IF new_order > old_order THEN -1 ELSE 1)
            me == CHOOSE x \in shifted.tracks : x.id = track_id
            final == (shifted.tracks \ {me}) \cup
                         {[me EXCEPT !.track_order = new_order]}
        IN  IF \/ ~uq_collection_track_order(parked)
               \/ Cardinality(parked) < Cardinality(tr)
               \/ ~shifted.ok
               \/ ~uq_collection_track_order(final)
               \/ Cardinality(final) < Cardinality(tr)
            THEN [ok |-> FALSE, tracks |-> tr]
            ELSE [ok |-> TRUE, tracks |-> final]

ReorderTrackWrite(r) ==
    /\ r \in DOMAIN inflight /\ inflight[r].op = "reorder"
    /\ LET row == inflight[r]
           w == reorder_writes(collection_tracks, row.cid, row.track_id,
                               row.order, row.new_order)
       IN  /\ collection_tracks' = w.tracks
           /\ resp' = ConcurrentResp("reorder_track", IF w.ok THEN 200 ELSE 500,
                                     r, row)
    /\ inflight' = Finish(r)
    /\ UNCHANGED next_id
    /\ ConcurrentUnchanged

\* Collection 1 starts with the dense orders 1..n, n <= MaxTracks.
InitConcurrent ==
    /\ users = SeedUsers /\ audio_files = SeedAudio
    /\ collections = SeedCollections /\ collaborators = SeedCollaborators
    /\ \E n \in 0 .. MaxTracks :
          collection_tracks = {TrackRow(i, 1, i) : i \in 1 .. n}
    /\ revoked_tokens = {} /\ audit_logs = <<>> /\ deletion_requests = {}
    /\ announcements = <<>> /\ tokens = {}
    /\ next_id = [SeedIds EXCEPT !.track = MaxTracks + 1]
    /\ now = 0 /\ config = SeedConfig
    /\ maintenance = [enabled |-> FALSE] /\ password_reset_tokens = {}
    /\ profile_pictures = {} /\ retention_policies = {} /\ inflight = <<>>
    /\ resp = NoResp

NextConcurrent ==
    \/ \E r \in Requests : AddTrackRead(r, 1, 1)
    \/ \E r \in Requests : AddTrackInsert(r)
    \/ \E r \in Requests, track_id \in 1 .. MaxTracks :
          RemoveTrackRead(r, 1, track_id)
    \/ \E r \in Requests : RemoveTrackDelete(r)
    \/ \E r \in Requests, track_id \in 1 .. MaxTracks,
          new_order \in {1, MaxTracks} :
          ReorderTrackRead(r, 1, track_id, new_order)
    \/ \E r \in Requests : ReorderTrackWrite(r)

SpecConcurrent == InitConcurrent /\ [][NextConcurrent]_vars

\* What the operation answered in resp gives when it runs alone, from
\* its first statement to its commit, on the table tr: [status, tracks].
RunAlone(tr, rp) ==
    LET found == \E t \in TracksOf(tr, rp.cid) : t.id = rp.track_id
    IN  IF rp.op = "add_track"
        THEN [status |-> 200,
              tracks |-> add_track_to_collection(tr, rp.cid, rp.file, Null,
                                                 rp.track_id)]
        ELSE IF rp.op = "remove_track"
        THEN [status |-> IF found THEN 200 ELSE 404,
              tracks |-> remove_track_from_collection(tr, rp.cid, rp.track_id)]
        ELSE [status |-> IF found THEN 200 ELSE 404,
              tracks |-> reorder_collection_track(tr, rp.cid, rp.track_id,
                                                  rp.new_order).tracks]

\* C25: two track operations (add, remove, reorder) of concurrent requests
\* on one collection give what they give one after the other: the request
\* that commits leaves the table, and answers, as if it had run alone on
\* the table committed at that moment, and a collection with the orders
\* 1..n keeps orders 1..n, with no duplicate and no gap.
C25_ConcurrentTrackOpsSerial ==
    [][(/\ resp'.op \in {"add_track", "remove_track", "reorder_track"}
        /\ DOMAIN inflight' \subseteq DOMAIN inflight
        /\ DenseIn(collection_tracks, 1)
        /\ (resp'.op = "reorder_track" =>
               resp'.new_order <= Cardinality(TracksOf(collection_tracks, 1))))
          => /\ resp'.status = RunAlone(collection_tracks, resp').status
             /\ collection_tracks' = RunAlone(collection_tracks, resp').tracks
             /\ DenseIn(collection_tracks', 1)]_vars

(***************************************************************************)
(* POST /users/token/refresh of concurrent requests.  The handler first    *)
(* decodes the token and asks is_token_revoked, and later calls            *)
(* add_revoked_token, which inserts the blacklist row unless one exists    *)
(* and commits.  inflight[r] holds the request between the two.            *)
(***************************************************************************)
\* refresh_token up to the user lookup: jwt.decode, is_token_revoked,
\* token_type, get_user_by_username.
RefreshTokenCheck(r, t) ==
    LET found == get_user_by_username(t.sub)
    IN  /\ r \notin DOMAIN inflight
        /\ IF \/ ~jwt_decode(t, config.refresh_token_secret_key)
              \/ is_token_revoked(t.jti)
              \/ t.token_type # "refresh"
              \/ found = {}
           THEN /\ resp' = [op |-> "refresh", status |-> 401, token |-> t]
                /\ UNCHANGED inflight
           ELSE /\ inflight' = inflight @@
                       (r :> [op |-> "refresh", jti |-> t.jti, exp |-> t.exp,
                              user |-> CHOOSE v \in found : TRUE])
                /\ UNCHANGED resp
        /\ UNCHANGED <<users, audio_files, collections, collection_tracks,
                       collaborators, revoked_tokens, audit_logs,
                       deletion_requests, announcements, tokens, next_id, now,
                       config, profile_pictures, retention_policies,
                       maintenance, password_reset_tokens>>

\* refresh_token from add_revoked_token on: the blacklist row (kept as it
\* is when another request has inserted it since), the new pair, the
\* audit row, the answer.
RefreshTokenIssue(r) ==
    /\ r \in DOMAIN inflight /\ inflight[r].op = "refresh"
    /\ AuditRoom /\ JtiRoom
    /\ LET row == inflight[r]
           u == row.user
           t == CHOOSE x \in tokens : x.jti = row.jti
       IN  /\ revoked_tokens' = add_revoked_token(
                  revoked_tokens, row.jti, "refresh", u,
                  fromtimestamp(row.exp), "token_refresh")
           /\ tokens' = ((tokens \ {t}) \cup {[t EXCEPT !.exchanged = TRUE]})
                  \cup {create_access_token(users[u].username, next_id.jti),
                        create_refresh_token(users[u].username, next_id.jti + 1)}
           /\ audit_logs' = create_audit_log(
                  audit_logs, "token.refresh", Some(u), TRUE)
           /\ resp' = [op |-> "refresh", status |-> 200, token |-> t]
    /\ next_id' = [next_id EXCEPT !.jti = @ + 2]
    /\ inflight' = Finish(r)
    /\ UNCHANGED <<users, audio_files, collections, collection_tracks,
                   collaborators, deletion_requests, announcements, now,
                   config, profile_pictures, retention_policies, maintenance,
                   password_reset_tokens>>

\* The server's clock is UTC, so a blacklist row lives as long as its
\* token, and no retention job runs.
InitRefresh ==
    /\ users = SeedUsers /\ audio_files = SeedAudio
    /\ collections = SeedCollections /\ collaborators = SeedCollaborators
    /\ collection_tracks = {}
    /\ revoked_tokens = {} /\ audit_logs = <<>> /\ deletion_requests = {}
    /\ announcements = <<>> /\ tokens = {}
    /\ next_id = SeedIds /\ now = 0 /\ config = SeedConfig
    /\ maintenance = [enabled |-> FALSE] /\ password_reset_tokens = {}
    /\ profile_pictures = {} /\ retention_policies = {} /\ inflight = <<>>
    /\ resp = NoResp

NextRefresh ==
    \/ Login("alice", "pw_alice")
    \/ Login("bob", "pw_bob")
    \/ \E r \in Requests, t \in tokens : RefreshTokenCheck(r, t)
    \/ \E r \in Requests : RefreshTokenIssue(r)
    \/ Tick

SpecRefresh == InitRefresh /\ [][NextRefresh]_vars

\* C26: of the refresh requests that present one refresh token, processed
\* concurrently or not, at most one answers with a new token pair: a
\* request answers 200 only for a token no request has exchanged before.
C26_RefreshSingleUseConcurrent ==
    [][(resp'.op = "refresh" /\ resp'.status = 200 /\ tokens' # tokens)
          => ~resp'.token.exchanged]_vars

(***************************************************************************)
(* Specification of disabled accounts: users log in and exchange refresh   *)
(* tokens while the superuser disables and enables accounts.               *)
(***************************************************************************)
InitDisabled ==
    /\ users = SeedUsers /\ audio_files = SeedAudio
    /\ collections = SeedCollections /\ collaborators = SeedCollaborators
    /\ collection_tracks = {}
    /\ revoked_tokens = {} /\ audit_logs = <<>> /\ deletion_requests = {}
    /\ announcements = <<>> /\ tokens = {}
    /\ next_id = SeedIds /\ now = 0 /\ config = SeedConfig
    /\ maintenance = [enabled |-> FALSE] /\ password_reset_tokens = {}
    /\ profile_pictures = {} /\ retention_policies = {} /\ inflight = <<>>
    /\ resp = NoResp

NextDisabled ==
    \/ Login("alice", "pw_alice")
    \/ Login("bob", "pw_bob")
    \/ \E t \in tokens : RefreshToken(t)
    \/ \E user_id \in 1 .. MaxUserId : DisableUser(1, user_id)
    \/ \E user_id \in 1 .. MaxUserId : EnableUser(1, user_id)
    \/ Tick

SpecDisabled == InitDisabled /\ [][NextDisabled]_vars

\* The access tokens a step has issued.
IssuedAccessTokens ==
    {t \in tokens' : t.token_type = "access" /\ t.jti >= next_id.jti}

\* C29: while an account is disabled (is_active false since an
\* administrator's disable, not yet enabled again) no endpoint, neither
\* the password login nor the refresh-token exchange, issues an access
\* token for it.
C29_DisabledGetsNoAccessToken ==
    [][next_id'.jti > next_id.jti =>
          \A t \in IssuedAccessTokens :
             \A u \in get_user_by_username(t.sub) : users[u].is_active]_vars

(***************************************************************************)
(* Specification of token subjects: alice (account 2) logs in, deletes her *)
(* account (soft or hard), somebody registers with another password, and   *)
(* tokens are presented to GET /users/me.  Only the login of account 2     *)
(* issues tokens here, so every token of this specification was issued to  *)
(* account 2.                                                              *)
(***************************************************************************)
InitSubject ==
    /\ users = SeedUsers /\ audio_files = SeedAudio
    /\ collections = SeedCollections /\ collaborators = SeedCollaborators
    /\ collection_tracks = {}
    /\ revoked_tokens = {} /\ audit_logs = <<>> /\ deletion_requests = {}
    /\ announcements = <<>> /\ tokens = {}
    /\ next_id = SeedIds /\ now = 0 /\ config = SeedConfig
    /\ maintenance = [enabled |-> FALSE] /\ password_reset_tokens = {}
    /\ profile_pictures = {} /\ retention_policies = {} /\ inflight = <<>>
    /\ resp = NoResp

NextSubject ==
    \/ Login("alice", "pw_alice")
    \/ \E deletion_type \in {"soft", "hard"} :
          DeleteAccountImmediately(2, "pw_alice", deletion_type)
    \/ \E username \in {"alice", "carol"} :
          CreateUser(username, "carol@example.com", "pw_new")
    \/ \E t \in tokens : ReadUserMe(Some(t))
    \/ Tick

SpecSubject == InitSubject /\ [][NextSubject]_vars

\* The account a presented token is resolved to (get_user_by_username of
\* its subject, in get_current_user and in refresh_token), if any.
ResolvesTo(t) ==
    IF jwt_decode(t, IF t.token_type = "access" THEN config.secret_key
                     ELSE config.refresh_token_secret_key)
    THEN get_user_by_username(t.sub) ELSE {}

\* C27: after any registrations, soft and hard deletions, an unexpired
\* access or refresh token that was issued to account A (here account 2)
\* is resolved to A or to no account, never to another account.
C27_TokenResolvesToOwner ==
    \A t \in tokens : ResolvesTo(t) \subseteq {2}

(***************************************************************************)
(* The anonymized names of soft_delete_user, under the registrations of    *)
(* SpecRegister.                                                           *)
(***************************************************************************)
\* No two rows of the table share a username or an email.
UsersUnique(us) ==
    \A a, b \in DOMAIN us :
        (us[a].username = us[b].username \/ us[a].email = us[b].email) => a = b

\* C28: soft_delete_user succeeds for every existing user in every
\* reachable state: the name deleted_user_{id} and the email
\* deleted_{id}@deleted.account are held by no other account (also not by
\* one that registered a name of this form), the user's row takes them,
\* and usernames and emails stay unique.
C28_SoftDeleteNeverCollides ==
    [][(/\ resp'.op = "delete_account"
        /\ resp'.deletion_type = "soft"
        /\ resp'.status # 401)
          => /\ soft_delete_user(DeletionTables, resp'.user).ok
             /\ resp'.status = 200
             /\ users'[resp'.user].username =
                    "deleted_user_" \o ToString(resp'.user)
             /\ UsersUnique(users')]_vars

(***************************************************************************)
(* The profile-picture sweep next to uploads.  An upload stores the object *)
(* and commits the user's URL afterwards; the sweep reads the referenced   *)
(* names from the database and afterwards lists the bucket and removes     *)
(* what it did not read.  Both run in threads of their own (a request, the *)
(* scheduler's job), so their steps interleave.  A URL is modelled by the  *)
(* object name it ends with.                                               *)
(***************************************************************************)
PictureNames == {"p1.png", "p2.png", "p3.png"}

PictureRow(op, user, name, referenced) ==
    [op |-> op, user |-> user, name |-> name, referenced |-> referenced]

PictureUnchanged ==
    UNCHANGED <<audio_files, collections, collection_tracks, collaborators,
                revoked_tokens, audit_logs, deletion_requests, announcements,
                tokens, next_id, now, config, retention_policies, maintenance,
                password_reset_tokens>>

\* upload_profile_picture up to minio_client.put_object, by the resolved
\* caller u; name is the fresh uuid4 file name.
UploadProfilePicturePut(r, u, name) ==
    /\ r \notin DOMAIN inflight /\ u \in DOMAIN users
    /\ name \notin profile_pictures
    /\ \A v \in DOMAIN users : users[v].profile_picture_url # name
    /\ \A q \in DOMAIN inflight : inflight[q].name # name
    /\ profile_pictures' = profile_pictures \cup {name}
    /\ inflight' = inflight @@ (r :> PictureRow("upload", u, name, {}))
    /\ UNCHANGED <<users, resp>>
    /\ PictureUnchanged

\* upload_profile_picture: current_user.profile_picture_url = file_url;
\* db.commit().
UploadProfilePictureCommit(r) ==
    /\ r \in DOMAIN inflight /\ inflight[r].op = "upload"
    /\ users' = [users EXCEPT ![inflight[r].user].profile_picture_url =
                                  inflight[r].name]
    /\ resp' = [op |-> "upload_profile_picture", status |-> 200,
                user |-> inflight[r].user, name |-> inflight[r].name]
    /\ inflight' = Finish(r)
    /\ UNCHANGED profile_pictures
    /\ PictureUnchanged

\* cleanup_unused_profile_pictures: the query of the referenced URLs.
\* The job is entry 0 of inflight (max_instances = 1).
SweepReadReferenced ==
    /\ 0 \notin DOMAIN inflight
    /\ inflight' = inflight @@
           (0 :> PictureRow("sweep", 0, None,
                     {users[u].profile_picture_url : u \in DOMAIN users}
                         \ {None}))
    /\ UNCHANGED <<users, profile_pictures, resp>>
    /\ PictureUnchanged

\* cleanup_unused_profile_pictures: list_objects and the remove_object of
\* every listed name that was not read as referenced.
SweepRemoveUnreferenced ==
    /\ 0 \in DOMAIN inflight
    /\ profile_pictures' = profile_pictures \cap inflight[0].referenced
    /\ resp' = [op |-> "cleanup_unused_profile_pictures", status |-> 0,
                deleted |-> profile_pictures \ inflight[0].referenced]
    /\ inflight' = Finish(0)
    /\ UNCHANGED users
    /\ PictureUnchanged

\* alice has a picture; an object of an earlier upload of hers is left.
InitPictures ==
    /\ users = [SeedUsers EXCEPT ![2].profile_picture_url = "alice.png"]
    /\ audio_files = SeedAudio
    /\ collections = SeedCollections /\ collaborators = SeedCollaborators
    /\ collection_tracks = {}
    /\ revoked_tokens = {} /\ audit_logs = <<>> /\ deletion_requests = {}
    /\ announcements = <<>> /\ tokens = {}
    /\ next_id = SeedIds /\ now = 0 /\ config = SeedConfig
    /\ maintenance = [enabled |-> FALSE] /\ password_reset_tokens = {}
    /\ profile_pictures = {"alice.png", "alice_old.png"}
    /\ retention_policies = {} /\ inflight = <<>>
    /\ resp = NoResp

NextPictures ==
    \/ \E r \in Requests, u \in {2, 3}, name \in PictureNames :
          UploadProfilePicturePut(r, u, name)
    \/ \E r \in Requests : UploadProfilePictureCommit(r)
    \/ SweepReadReferenced
    \/ SweepRemoveUnreferenced

SpecPictures == InitPictures /\ [][NextPictures]_vars

\* C30: once every running upload and sweep has finished, the object of
\* every profile_picture_url of a user row is in the bucket: the sweep,
\* also next to a concurrent upload, has removed no object that a row
\* references.
C30_SweepKeepsReferencedPictures ==
    inflight = <<>> =>
        \A u \in DOMAIN users :
            users[u].profile_picture_url # None =>
                users[u].profile_picture_url \in profile_pictures

====
